---- MODULE Spec2Model ----
(***************************************************************************)
(* Model of the e-commerce application: products and their stock, carts    *)
(* (one per user plus the guest cart of the browser session), the login    *)
(* with guest-cart merge, the checkout and the order model.                *)
(*                                                                         *)
(* Prices are integer cents (Numeric(10, 2) columns).  The monetary fields *)
(* of an order are held in hundredths of a cent, so that the product       *)
(* subtotal * 0.08 that calculate_tax computes is represented exactly      *)
(* before the Numeric(10, 2) column rounds it to whole cents.              *)
(***************************************************************************)
EXTENDS Integers, Sequences, FiniteSets, TLC

(* ------------------------------ bounds --------------------------------- *)
MaxStock == 2
MaxQty == 2
MaxOrders == 1
MaxNotes == 2

(* --------------------------- program values ---------------------------- *)
None == -1
TaxRatePercent == 8

Products == {1, 2}
Users == {1, 2, 3}
GuestSession == 0
CartKeys == {GuestSession} \cup Users

PriceChoices == {10}
SalePriceChoices == {None}

OrderStatus ==
    {"pending", "confirmed", "processing", "shipped", "delivered",
     "cancelled", "returned"}
PaymentStatus ==
    {"pending", "paid", "failed", "refunded", "partially_refunded"}

VARIABLES
    stock_quantity,   \* Product.stock_quantity, per product
    is_active,        \* Product.is_active, per product
    price,            \* Product.price in cents, per product
    sale_price,       \* Product.sale_price in cents or None, per product
    cart_rows,        \* the keys of the Cart rows that exist
    cart_items,       \* Cart.items per cart key, in insertion order
    cart_session_id,  \* session['cart_session_id'] of the browser
    current_user,     \* the logged-in user of the browser, or None
    orders,           \* the Order rows, in creation order
    users,            \* the User rows, in creation order (id = index)
    categories,       \* the Category rows: a function of the ids that exist
    product_rows,     \* the ids of the Product rows that exist
    category_id,      \* Product.category_id, per product
    product_name,     \* Product.name, per product, as its characters
    sku,              \* Product.sku or NoSku, per product
    db_sessions,      \* per user, the checkout request in flight
    last              \* the last operation and its outcome

vars == <<stock_quantity, is_active, price, sale_price, cart_rows, cart_items,
          cart_session_id, current_user, orders, users, categories,
          product_rows, category_id, product_name, sku, db_sessions, last>>

product_vars == <<stock_quantity, is_active, price, sale_price>>
cart_vars == <<cart_rows, cart_items>>
session_vars == <<cart_session_id, current_user, db_sessions>>
user_vars == <<users>>
catalog_vars == <<categories, product_rows, category_id, product_name, sku>>

Outcome(op, err, p, q) == [op |-> op, err |-> err, p |-> p, q |-> q]

(* No checkout request of the user in flight: nothing loaded.              *)
NoRequest ==
    [pc |-> "idle", stock |-> [p \in Products |-> 0],
     active |-> [p \in Products |-> FALSE], items |-> <<>>]

(* ------------------------------ Product -------------------------------- *)

get_display_price(p) ==
    IF sale_price[p] # None /\ sale_price[p] # 0 THEN sale_price[p] ELSE price[p]

get_effective_price(p) == get_display_price(p)

(* reserve_stock without the check of the available stock.                 *)
product_reserve_stock_unchecked(stock, quantity) ==
    IF quantity <= 0 THEN [err |-> "quantity", stock |-> stock]
    ELSE [err |-> "ok", stock |-> stock - quantity]

(* Product.reserve_stock on a stock value: the error, and the new stock.   *)
product_reserve_stock(stock, quantity) ==
    IF quantity <= 0 THEN [err |-> "quantity", stock |-> stock]
    ELSE IF stock < quantity THEN [err |-> "insufficient", stock |-> stock]
    ELSE [err |-> "ok", stock |-> stock - quantity]

product_release_stock(stock, quantity) ==
    IF quantity <= 0 THEN [err |-> "quantity", stock |-> stock]
    ELSE [err |-> "ok", stock |-> stock + quantity]

product_update_stock(stock, new_quantity) ==
    IF new_quantity < 0 THEN [err |-> "negative", stock |-> stock]
    ELSE [err |-> "ok", stock |-> new_quantity]

(* -------------------------------- Cart --------------------------------- *)

CartItem(p, q, pr) == [product_id |-> p, quantity |-> q, price |-> pr]

(* Index of the first line of the product, 0 when there is none.           *)
get_item_by_product(items, p) ==
    IF \E i \in 1..Len(items) : items[i].product_id = p
    THEN CHOOSE i \in 1..Len(items) :
            /\ items[i].product_id = p
            /\ \A j \in 1..(i - 1) : items[j].product_id # p
    ELSE 0

RemoveAt(items, i) ==
    [j \in 1..(Len(items) - 1) |-> IF j < i THEN items[j] ELSE items[j + 1]]

(* add_item without the lookup of the existing line.                       *)
add_item_always_new(items, p, q) ==
    IF ~is_active[p] THEN [err |-> "inactive", items |-> items]
    ELSE IF q > stock_quantity[p]
    THEN [err |-> "insufficient", items |-> items]
    ELSE [err |-> "ok",
          items |-> Append(items, CartItem(p, q, get_effective_price(p)))]

(* add_item checking the added quantity alone against the stock.           *)
add_item_ignoring_existing(items, p, q) ==
    LET i == get_item_by_product(items, p)
    IN  IF ~is_active[p] THEN [err |-> "inactive", items |-> items]
        ELSE IF q > stock_quantity[p]
        THEN [err |-> "insufficient", items |-> items]
        ELSE IF i # 0
        THEN [err |-> "ok",
              items |-> [items EXCEPT ![i].quantity = @ + q]]
        ELSE [err |-> "ok",
              items |-> Append(items, CartItem(p, q, get_effective_price(p)))]

(* add_item re-reading the product's price into the existing line.         *)
add_item_refreshing_price(items, p, q) ==
    LET i == get_item_by_product(items, p)
        total_quantity == q + (IF i # 0 THEN items[i].quantity ELSE 0)
    IN  IF ~is_active[p] THEN [err |-> "inactive", items |-> items]
        ELSE IF total_quantity > stock_quantity[p]
        THEN [err |-> "insufficient", items |-> items]
        ELSE IF i # 0
        THEN [err |-> "ok",
              items |-> [items EXCEPT ![i].quantity = @ + q,
                                      ![i].price = get_effective_price(p)]]
        ELSE [err |-> "ok",
              items |-> Append(items, CartItem(p, q, get_effective_price(p)))]

add_item(items, p, q) ==
    LET i == get_item_by_product(items, p)
        total_quantity == q + (IF i # 0 THEN items[i].quantity ELSE 0)
    IN  IF ~is_active[p] THEN [err |-> "inactive", items |-> items]
        ELSE IF total_quantity > stock_quantity[p]
        THEN [err |-> "insufficient", items |-> items]
        ELSE IF i # 0
        THEN [err |-> "ok",
              items |-> [items EXCEPT ![i].quantity = @ + q]]
        ELSE [err |-> "ok",
              items |-> Append(items, CartItem(p, q, get_effective_price(p)))]

remove_item(items, p) ==
    LET i == get_item_by_product(items, p)
    IN  IF i # 0 THEN RemoveAt(items, i) ELSE items

(* update_item_quantity writing the quantity 0 into the line.              *)
update_item_quantity_keeping_line(items, p, q) ==
    LET i == get_item_by_product(items, p)
    IN  IF i = 0 THEN [err |-> "not_found", items |-> items]
        ELSE IF q > stock_quantity[p]
        THEN [err |-> "insufficient", items |-> items]
        ELSE [err |-> "ok", items |-> [items EXCEPT ![i].quantity = q]]

(* update_item_quantity without the comparison with the stock.             *)
update_item_quantity_unchecked(items, p, q) ==
    LET i == get_item_by_product(items, p)
    IN  IF i = 0 THEN [err |-> "not_found", items |-> items]
        ELSE IF q <= 0 THEN [err |-> "ok", items |-> remove_item(items, p)]
        ELSE [err |-> "ok", items |-> [items EXCEPT ![i].quantity = q]]

update_item_quantity(items, p, q) ==
    LET i == get_item_by_product(items, p)
    IN  IF i = 0 THEN [err |-> "not_found", items |-> items]
        ELSE IF q <= 0 THEN [err |-> "ok", items |-> remove_item(items, p)]
        ELSE IF q > stock_quantity[p]
        THEN [err |-> "insufficient", items |-> items]
        ELSE [err |-> "ok", items |-> [items EXCEPT ![i].quantity = q]]

clear_cart(items) == <<>>

is_empty(items) == Len(items) = 0

(* The audit looking at the stock alone, not at is_active.                 *)
validate_stock_only(items) ==
    {i \in 1..Len(items) :
        items[i].quantity > stock_quantity[items[i].product_id]}

(* The indices of the lines that are no longer purchasable.                *)
validate_stock_availability(items) ==
    {i \in 1..Len(items) :
        \/ ~is_active[items[i].product_id]
        \/ items[i].quantity > stock_quantity[items[i].product_id]}

(* get_or_create_cart: the key of the cart of the request.                 *)
RequestCartKey == IF current_user # None THEN current_user ELSE GuestSession

(* -------------------------------- User --------------------------------- *)

(* datetime.utcnow() as stored in a column: every timestamp is the one     *)
(* value utcnow, a column never written is None.                           *)
utcnow == 1

(* str.lower() on the names and addresses the requests submit.             *)
Lower(s) ==
    CASE s = "Bob@x" -> "bob@x"
      [] s = "Ann@x" -> "ann@x"
      [] s = "Bob" -> "bob"
      [] OTHER -> s

(* werkzeug generate_password_hash / check_password_hash                   *)
generate_password_hash(password) == <<"pbkdf2", password>>

check_password_hash(pwhash, password) == pwhash = <<"pbkdf2", password>>

User(username, email, password, active, admin) ==
    [username |-> username,
     email |-> email,
     password_hash |-> generate_password_hash(password),
     is_active |-> active,
     is_admin |-> admin,
     last_login |-> None]

check_password(u, password) == check_password_hash(u.password_hash, password)

update_last_login(rows, i) == [rows EXCEPT ![i].last_login = utcnow]

(* create_user without the lookup of the email.                            *)
create_user_unchecked_email(rows, username, email, password, active, admin) ==
    IF \E i \in 1..Len(rows) : rows[i].username = username
    THEN [err |-> "username", users |-> rows]
    ELSE [err |-> "ok",
          users |-> Append(rows, User(username, email, password, active, admin))]

(* User.create_user: the error, and the rows afterwards.                   *)
create_user(rows, username, email, password, active, admin) ==
    IF \E i \in 1..Len(rows) : rows[i].username = username
    THEN [err |-> "username", users |-> rows]
    ELSE IF \E i \in 1..Len(rows) : rows[i].email = email
    THEN [err |-> "email", users |-> rows]
    ELSE [err |-> "ok",
          users |-> Append(rows, User(username, email, password, active, admin))]

(* The rows the query of authenticate matches: username or email equal to  *)
(* the identifier.                                                         *)
MatchingUsers(rows, identifier) ==
    {i \in 1..Len(rows) :
        rows[i].username = identifier \/ rows[i].email = identifier}

(* Query.first() without ORDER BY: any one of the matching rows, None when *)
(* there is none.                                                          *)
first(matching) == IF matching = {} THEN {None} ELSE matching

(* authenticate stamping last_login before it looks at is_active.          *)
authenticate_stamp_inactive(rows, u, password) ==
    IF u # None /\ check_password(rows[u], password)
    THEN [user |-> IF rows[u].is_active THEN u ELSE None,
          users |-> update_last_login(rows, u)]
    ELSE [user |-> None, users |-> rows]

(* User.authenticate once the query has returned row u (or None): the user *)
(* returned, and the rows afterwards.                                      *)
authenticate(rows, u, password) ==
    IF u # None /\ check_password(rows[u], password) /\ rows[u].is_active
    THEN [user |-> u, users |-> update_last_login(rows, u)]
    ELSE [user |-> None, users |-> rows]

(* ------------------------------ Category ------------------------------- *)

CategoryIds == {1, 2}

(* The letters str.lower() maps, and their images.                         *)
UpperCase ==
    <<"A", "B", "C", "D", "E", "F", "G", "H", "I", "J", "K", "L", "M",
      "N", "O", "P", "Q", "R", "S", "T", "U", "V", "W", "X", "Y", "Z">>

LowerCase ==
    <<"a", "b", "c", "d", "e", "f", "g", "h", "i", "j", "k", "l", "m",
      "n", "o", "p", "q", "r", "s", "t", "u", "v", "w", "x", "y", "z">>

(* str.lower() on one character of a category name.                        *)
LowerChar(c) ==
    IF \E i \in 1..Len(UpperCase) : UpperCase[i] = c
    THEN LowerCase[CHOOSE i \in 1..Len(UpperCase) : UpperCase[i] = c]
    ELSE c

RECURSIVE generate_slug(_)
(* Category.generate_slug on a name given as its characters:               *)
(* name.lower().replace(' ', '-').replace('&', 'and')                      *)
generate_slug(name) ==
    IF name = <<>> THEN <<>>
    ELSE LET c == LowerChar(Head(name))
         IN  (IF c = " " THEN <<"-">>
              ELSE IF c = "&" THEN <<"a", "n", "d">>
              ELSE <<c>>) \o generate_slug(Tail(name))

(* Category.__init__                                                       *)
Category(name) == [name |-> name, slug |-> generate_slug(name)]

(* Category.update(name=...): the name and the regenerated slug.           *)
category_update(c, name) ==
    [c EXCEPT !.name = name, !.slug = generate_slug(name)]

(* category.products, a lazy='dynamic' relationship: the query of the      *)
(* products of the category.                                               *)
category_products(c) == {p \in product_rows : category_id[p] = c}

(* bool() of the query object category.products: the class defines neither *)
(* __bool__ nor __len__, so the object is true whatever the query selects. *)
query_is_true(selected) == TRUE

(* The NULL of the column products.sku, among SKUs that are strings.       *)
NoSku == ""

(* The name the product form carries for the row of id p: a name no other *)
(* row holds; the form's SKU field is left empty.                          *)
FormName(p) == <<"P", IF p = 1 THEN "1" ELSE "2">>

(* ------------------------------- Init ---------------------------------- *)

Init ==
    /\ stock_quantity = [p \in Products |-> MaxStock]
    /\ is_active = [p \in Products |-> TRUE]
    /\ price = [p \in Products |-> 10]
    /\ sale_price = [p \in Products |-> None]
    /\ cart_rows = {}
    /\ cart_items = [k \in CartKeys |-> <<>>]
    /\ cart_session_id = None
    /\ current_user = None
    /\ orders = <<>>
    /\ users = <<User("ann", "ann@x", "pw1", TRUE, FALSE)>>
    /\ categories = (1 :> Category(<<"B", "o", "o", "k", "s">>))
    /\ product_rows = Products
    /\ category_id = [p \in Products |-> 1]
    /\ product_name = [p \in Products |-> FormName(p)]
    /\ sku = [p \in Products |-> NoSku]
    /\ db_sessions = [u \in Users |-> NoRequest]
    /\ last = Outcome("init", "ok", 0, 0)

(* --------------------------- shop routes ------------------------------- *)

(* POST /add-to-cart: the form admits quantities 1..100.                   *)
AddToCart(p, q) ==
    LET k == RequestCartKey
        r == add_item(cart_items[k], p, q)
    IN  /\ cart_rows' = cart_rows \cup {k}
        /\ cart_session_id' =
              IF current_user = None THEN GuestSession ELSE cart_session_id
        /\ cart_items' = [cart_items EXCEPT ![k] = r.items]
        /\ last' = Outcome("add_to_cart", r.err, p, q)
        /\ UNCHANGED <<product_vars, current_user, db_sessions, orders,
                       user_vars, catalog_vars>>

(* POST /update-cart: quantity is any integer of the request.              *)
UpdateCart(p, q) ==
    LET k == RequestCartKey
        r == IF q = 0
             THEN [err |-> "ok", items |-> remove_item(cart_items[k], p)]
             ELSE update_item_quantity(cart_items[k], p, q)
    IN  /\ cart_rows' = cart_rows \cup {k}
        /\ cart_session_id' =
              IF current_user = None THEN GuestSession ELSE cart_session_id
        /\ cart_items' = [cart_items EXCEPT ![k] = r.items]
        /\ last' = Outcome("update_cart", r.err, p, q)
        /\ UNCHANGED <<product_vars, current_user, db_sessions, orders,
                       user_vars, catalog_vars>>

(* cart.update_item_quantity(product_id, quantity) called directly on the  *)
(* cart of the session.                                                    *)
UpdateItemQuantity(p, q) ==
    LET k == RequestCartKey
        r == update_item_quantity(cart_items[k], p, q)
    IN  /\ k \in cart_rows
        /\ cart_items' = [cart_items EXCEPT ![k] = r.items]
        /\ last' = Outcome("update_item_quantity", r.err, p, q)
        /\ UNCHANGED <<product_vars, cart_rows, session_vars, orders,
                       user_vars, catalog_vars>>

(* GET /remove-from-cart/<product_id>                                      *)
RemoveFromCart(p) ==
    LET k == RequestCartKey
    IN  /\ cart_rows' = cart_rows \cup {k}
        /\ cart_session_id' =
              IF current_user = None THEN GuestSession ELSE cart_session_id
        /\ cart_items' = [cart_items EXCEPT ![k] = remove_item(@, p)]
        /\ last' = Outcome("remove_from_cart", "ok", p, 0)
        /\ UNCHANGED <<product_vars, current_user, db_sessions, orders,
                       user_vars, catalog_vars>>

(* GET /clear-cart                                                         *)
ClearCart ==
    LET k == RequestCartKey
    IN  /\ cart_rows' = cart_rows \cup {k}
        /\ cart_session_id' =
              IF current_user = None THEN GuestSession ELSE cart_session_id
        /\ cart_items' = [cart_items EXCEPT ![k] = clear_cart(@)]
        /\ last' = Outcome("clear_cart", "ok", 0, 0)
        /\ UNCHANGED <<product_vars, current_user, db_sessions, orders,
                       user_vars, catalog_vars>>

(* ------------------------------- Order --------------------------------- *)

OrderItem(p, q, pr) == [product_id |-> p, quantity |-> q, price |-> pr]

StatusLine(old, new, note) ==
    [kind |-> "status", old |-> old, new |-> new, note |-> note]

TextLine(note) == [kind |-> "text", old |-> "", new |-> "", note |-> note]

(* Numeric(10, 2): a value in hundredths of a cent as the column returns   *)
(* it, rounded to whole cents.                                             *)
Quantize(units) == ((units + 50) \div 100) * 100

RECURSIVE SumTotalPrice(_)
(* sum(item.get_total_price() for item in self.items), in 1/100 cent       *)
SumTotalPrice(items) ==
    IF items = <<>> THEN 0
    ELSE items[1].price * items[1].quantity * 100 + SumTotalPrice(Tail(items))

calculate_tax(subtotal) == (subtotal * TaxRatePercent) \div 100

(* Order.calculate_totals.  The sum and the tax are floats; on an order    *)
(* whose shipping and discount amounts were loaded from their Numeric      *)
(* columns (Decimal), float + Decimal raises TypeError after subtotal and  *)
(* tax have been assigned.                                                 *)
calculate_totals(o) ==
    LET subtotal == SumTotalPrice(o.items)
        tax == calculate_tax(subtotal)
        o1 == [o EXCEPT !.subtotal_amount = subtotal, !.tax_amount = tax]
    IN  IF o.from_db
        THEN [err |-> "type_error", order |-> o1]
        ELSE [err |-> "ok",
              order |-> [o1 EXCEPT !.total_amount =
                            subtotal + tax + o.shipping_amount
                              - o.discount_amount]]

(* db.session.commit() as the order sees it: the attributes expire and are *)
(* read back from the Numeric(10, 2) columns.                              *)
Commit(o) ==
    [o EXCEPT !.subtotal_amount = Quantize(@),
              !.tax_amount = Quantize(@),
              !.shipping_amount = Quantize(@),
              !.discount_amount = Quantize(@),
              !.total_amount = Quantize(@),
              !.from_db = TRUE]

RECURSIVE add_items_from_cart(_)
add_items_from_cart(items) ==
    IF items = <<>> THEN <<>>
    ELSE <<OrderItem(items[1].product_id, items[1].quantity, items[1].price)>>
            \o add_items_from_cart(Tail(items))

(* Order.reserve_stock reserving the first line only.                      *)
order_reserve_stock_first_only(stock, items) ==
    IF items = <<>> THEN [err |-> "ok", stock |-> stock]
    ELSE LET p == items[1].product_id
             r == product_reserve_stock(stock[p], items[1].quantity)
         IN  IF r.err # "ok" THEN [err |-> r.err, stock |-> stock]
             ELSE [err |-> "ok", stock |-> [stock EXCEPT ![p] = r.stock]]

RECURSIVE order_reserve_stock(_, _)
(* Order.reserve_stock: product.reserve_stock for each line in turn; the   *)
(* first error ends the loop.                                              *)
order_reserve_stock(stock, items) ==
    IF items = <<>> THEN [err |-> "ok", stock |-> stock]
    ELSE LET p == items[1].product_id
             r == product_reserve_stock(stock[p], items[1].quantity)
         IN  IF r.err # "ok" THEN [err |-> r.err, stock |-> stock]
             ELSE order_reserve_stock([stock EXCEPT ![p] = r.stock],
                                      Tail(items))

RECURSIVE order_release_stock(_, _)
order_release_stock(stock, items) ==
    IF items = <<>> THEN [err |-> "ok", stock |-> stock]
    ELSE LET p == items[1].product_id
             r == product_release_stock(stock[p], items[1].quantity)
         IN  IF r.err # "ok" THEN [err |-> r.err, stock |-> stock]
             ELSE order_release_stock([stock EXCEPT ![p] = r.stock],
                                      Tail(items))

NewOrder(user, note) ==
    [user_id |-> user,
     status |-> "pending",
     payment_status |-> "pending",
     items |-> <<>>,
     subtotal_amount |-> 0,
     tax_amount |-> 0,
     shipping_amount |-> 0,
     discount_amount |-> 0,
     total_amount |-> 0,
     notes |-> IF note = "" THEN <<>> ELSE <<TextLine(note)>>,
     from_db |-> FALSE]

(* Order.create_from_cart: the error, the committed order and the stock.   *)
create_from_cart(user, items, note) ==
    IF is_empty(items)
    THEN [err |-> "empty", order |-> NewOrder(user, note),
          stock |-> stock_quantity]
    ELSE IF validate_stock_availability(items) # {}
    THEN [err |-> "unavailable", order |-> NewOrder(user, note),
          stock |-> stock_quantity]
    ELSE LET o0 == [NewOrder(user, note) EXCEPT
                        !.items = add_items_from_cart(items)]
             t == calculate_totals(o0)
             r == order_reserve_stock(stock_quantity, t.order.items)
         IN  IF t.err # "ok"
             THEN [err |-> t.err, order |-> o0, stock |-> stock_quantity]
             ELSE IF r.err # "ok"
             THEN [err |-> r.err, order |-> o0, stock |-> stock_quantity]
             ELSE [err |-> "ok", order |-> Commit(t.order), stock |-> r.stock]

(* The checkout body creating the order before it takes the payment.      *)
checkout_order_before_payment(user, items, pay_ok, note) ==
    LET c == create_from_cart(user, items, note)
    IN  IF is_empty(items)
        THEN [err |-> "empty", placed |-> FALSE, order |-> c.order,
              stock |-> stock_quantity, items |-> items]
        ELSE IF validate_stock_availability(items) # {}
        THEN [err |-> "unavailable", placed |-> FALSE, order |-> c.order,
              stock |-> stock_quantity, items |-> items]
        ELSE IF c.err # "ok"
        THEN [err |-> c.err, placed |-> FALSE, order |-> c.order,
              stock |-> stock_quantity, items |-> items]
        ELSE [err |-> IF pay_ok THEN "ok" ELSE "payment_failed",
              placed |-> TRUE, order |-> c.order, stock |-> c.stock,
              items |-> IF pay_ok THEN clear_cart(items) ELSE items]

(* The body of checkout on the cart lines: the response, whether an order  *)
(* was placed, the order, the stock and the cart lines afterwards.         *)
checkout_body(user, items, pay_ok, note) ==
    LET c == create_from_cart(user, items, note)
    IN  IF is_empty(items)
        THEN [err |-> "empty", placed |-> FALSE, order |-> c.order,
              stock |-> stock_quantity, items |-> items]
        ELSE IF validate_stock_availability(items) # {}
        THEN [err |-> "unavailable", placed |-> FALSE, order |-> c.order,
              stock |-> stock_quantity, items |-> items]
        ELSE IF ~pay_ok
        THEN [err |-> "payment_failed", placed |-> FALSE, order |-> c.order,
              stock |-> stock_quantity, items |-> items]
        ELSE IF c.err # "ok"
        THEN [err |-> c.err, placed |-> FALSE, order |-> c.order,
              stock |-> stock_quantity, items |-> items]
        ELSE [err |-> "ok", placed |-> TRUE, order |-> c.order,
              stock |-> c.stock, items |-> clear_cart(items)]

(* POST /checkout with a valid form.  pay_ok is the simulated payment.     *)
Checkout(pay_ok, note) ==
    /\ current_user # None
    /\ LET k == RequestCartKey
           r == checkout_body(current_user, cart_items[k], pay_ok, note)
       IN  /\ r.placed => Len(orders) < MaxOrders
           /\ cart_rows' = cart_rows \cup {k}
           /\ last' = Outcome("checkout", r.err, 0, 0)
           /\ orders' = IF r.placed THEN Append(orders, r.order) ELSE orders
           /\ stock_quantity' = r.stock
           /\ cart_items' = [cart_items EXCEPT ![k] = r.items]
           /\ UNCHANGED <<is_active, price, sale_price, session_vars,
                          user_vars, catalog_vars>>

(* ------------------------------- auth ---------------------------------- *)

RECURSIVE MergeItems_abort_on_error(_, _)
(* The merge loop giving up at the first line add_item rejects.            *)
MergeItems_abort_on_error(user_items, guest_items) ==
    IF guest_items = <<>> THEN user_items
    ELSE LET r == add_item(user_items, guest_items[1].product_id,
                           guest_items[1].quantity)
         IN  IF r.err # "ok" THEN user_items
             ELSE MergeItems_abort_on_error(r.items, Tail(guest_items))

RECURSIVE MergeItems(_, _)
(* The loop of merge_guest_cart_with_user_cart: add each guest line to the *)
(* user cart, skipping the lines add_item rejects.                         *)
MergeItems(user_items, guest_items) ==
    IF guest_items = <<>> THEN user_items
    ELSE LET r == add_item(user_items, guest_items[1].product_id,
                           guest_items[1].quantity)
         IN  MergeItems(r.items, Tail(guest_items))

(* POST /auth/login with valid credentials of user u.                      *)
Login(u) ==
    /\ current_user = None
    /\ u \in 1..Len(users)
    /\ users[u].is_active
    /\ users' = update_last_login(users, u)
    /\ current_user' = u
    /\ IF cart_session_id = None
          \/ cart_session_id \notin cart_rows
          \/ is_empty(cart_items[GuestSession])
       THEN /\ UNCHANGED <<cart_vars, cart_session_id>>
            /\ last' = Outcome("login", "ok", 0, 0)
       ELSE /\ cart_items' =
                [cart_items EXCEPT
                    ![u] = MergeItems(@, cart_items[GuestSession]),
                    ![GuestSession] = <<>>]
            /\ cart_rows' = (cart_rows \cup {u}) \ {GuestSession}
            /\ cart_session_id' = None
            /\ last' = Outcome("login", "merged", 0, 0)
    /\ UNCHANGED <<product_vars, orders, catalog_vars, db_sessions>>

(* GET /auth/logout                                                        *)
Logout ==
    /\ current_user # None
    /\ current_user' = None
    /\ last' = Outcome("logout", "ok", 0, 0)
    /\ UNCHANGED <<product_vars, cart_vars, cart_session_id, db_sessions,
                   orders, user_vars, catalog_vars>>

(* ------------------------------- admin --------------------------------- *)

(* POST /admin/products/<id>/edit by an administrator in another browser.  *)
(* DataRequired rejects a stock quantity of 0; validate_sale_price rejects *)
(* a sale price that is not below the price.                               *)
EditProduct(p, stock, active, pr, sale) ==
    LET valid == /\ stock # 0
                 /\ (sale # None => sale < pr)
    IN  /\ IF valid
           THEN /\ stock_quantity' = [stock_quantity EXCEPT ![p] = stock]
                /\ is_active' = [is_active EXCEPT ![p] = active]
                /\ price' = [price EXCEPT ![p] = pr]
                /\ sale_price' = [sale_price EXCEPT ![p] = sale]
           ELSE UNCHANGED product_vars
        /\ last' = Outcome("edit_product", IF valid THEN "ok" ELSE "invalid",
                           p, stock)
        /\ UNCHANGED <<cart_vars, session_vars, orders, user_vars,
                       catalog_vars>>

(* --------------------- direct calls on a product ----------------------- *)

ReserveStock(p, q) ==
    LET r == product_reserve_stock(stock_quantity[p], q)
    IN  /\ stock_quantity' = [stock_quantity EXCEPT ![p] = r.stock]
        /\ last' = Outcome("reserve_stock", r.err, p, q)
        /\ UNCHANGED <<is_active, price, sale_price, cart_vars, session_vars,
                       orders, user_vars, catalog_vars>>

ReleaseStock(p, q) ==
    LET r == product_release_stock(stock_quantity[p], q)
    IN  /\ r.stock <= MaxStock
        /\ stock_quantity' = [stock_quantity EXCEPT ![p] = r.stock]
        /\ last' = Outcome("release_stock", r.err, p, q)
        /\ UNCHANGED <<is_active, price, sale_price, cart_vars, session_vars,
                       orders, user_vars, catalog_vars>>

UpdateStock(p, n) ==
    LET r == product_update_stock(stock_quantity[p], n)
    IN  /\ stock_quantity' = [stock_quantity EXCEPT ![p] = r.stock]
        /\ last' = Outcome("update_stock", r.err, p, n)
        /\ UNCHANGED <<is_active, price, sale_price, cart_vars, session_vars,
                       orders, user_vars, catalog_vars>>

(* ---------------------- direct calls on an order ----------------------- *)

(* Order.update_status(new_status, notes): no transition is refused; the   *)
(* audit line is appended only when notes is non-empty; commit.            *)
update_status(o, new_status, note) ==
    LET old_status == o.status
        o1 == [o EXCEPT !.status = new_status]
        o2 == IF note # ""
              THEN [o1 EXCEPT !.notes =
                        Append(@, StatusLine(old_status, new_status, note))]
              ELSE o1
    IN  Commit(o2)

update_payment_status(o, new_status) ==
    Commit([o EXCEPT !.payment_status = new_status])

can_be_cancelled(o) == o.status \in {"pending", "confirmed"}

can_be_shipped(o) == o.status = "confirmed" /\ o.payment_status = "paid"

(* The lines of the notes that contain 'Status changed'.                   *)
get_status_history(o) == SelectSeq(o.notes, LAMBDA l : l.kind = "status")

UpdateStatus(i, new_status, note) ==
    /\ i \in 1..Len(orders)
    /\ note # "" => Len(orders[i].notes) < MaxNotes
    /\ orders' = [orders EXCEPT ![i] = update_status(@, new_status, note)]
    /\ last' = Outcome("update_status", "ok", i, 0)
    /\ UNCHANGED <<product_vars, cart_vars, session_vars, user_vars,
                   catalog_vars>>

UpdatePaymentStatus(i, new_status) ==
    /\ i \in 1..Len(orders)
    /\ orders' = [orders EXCEPT ![i] = update_payment_status(@, new_status)]
    /\ last' = Outcome("update_payment_status", "ok", i, 0)
    /\ UNCHANGED <<product_vars, cart_vars, session_vars, user_vars,
                   catalog_vars>>

CalculateTotals(i) ==
    /\ i \in 1..Len(orders)
    /\ LET r == calculate_totals(orders[i])
       IN  /\ orders' = [orders EXCEPT ![i] = r.order]
           /\ last' = Outcome("calculate_totals", r.err, i, 0)
    /\ UNCHANGED <<product_vars, cart_vars, session_vars, user_vars,
                   catalog_vars>>

(* ----------------------- users and the login form ---------------------- *)

(* The result of a call or request that names an identifier and a          *)
(* password, and the user it returned.                                     *)
AuthOutcome(op, err, identifier, password, user) ==
    [op |-> op, err |-> err, p |-> identifier, q |-> password, user |-> user]

(* User.create_user(username, email, password, ..., is_active=, is_admin=) *)
CreateUser(username, email, password, active, admin) ==
    LET r == create_user(users, username, email, password, active, admin)
    IN  /\ Len(users) < Cardinality(Users)
        /\ users' = r.users
        /\ last' = Outcome("create_user", r.err, username, email)
        /\ UNCHANGED <<product_vars, cart_vars, session_vars, orders,
                       catalog_vars>>

(* User.authenticate(identifier, password) called directly.                *)
Authenticate(identifier, password) ==
    \E u \in first(MatchingUsers(users, identifier)) :
        LET r == authenticate(users, u, password)
        IN  /\ users' = r.users
            /\ last' = AuthOutcome("authenticate",
                                   IF r.user # None THEN "ok" ELSE "none",
                                   identifier, password, r.user)
            /\ UNCHANGED <<product_vars, cart_vars, session_vars, orders,
                           catalog_vars>>

(* The response of the login view to the user authenticate returned.       *)
login_response(user) == IF user # None THEN "welcome" ELSE "invalid"

(* POST /auth/login with a valid form: the identifier is lowercased, the   *)
(* user authenticate returns is logged in and the guest cart merged; None  *)
(* re-renders the login page with the one error message.                   *)
LoginAttempt(identifier, password) ==
    /\ current_user = None
    /\ \E u \in first(MatchingUsers(users, Lower(identifier))) :
        LET r == authenticate(users, u, password)
        IN  \/ /\ r.user # None
               /\ Login(r.user)
            \/ /\ r.user = None
               /\ users' = r.users
               /\ last' = AuthOutcome("login", login_response(r.user),
                                      identifier, password, r.user)
               /\ UNCHANGED <<product_vars, cart_vars, session_vars, orders,
                              catalog_vars>>

(* The profile form's email applied to the rows: the check against other   *)
(* accounts when the lowercased address differs from the stored one, then  *)
(* the assignment, which the unique constraint on users.email refuses on   *)
(* commit (IntegrityError, rollback) when another row holds the address.   *)
edit_profile(rows, u, email) ==
    LET e == Lower(email)
    IN  IF e # Lower(rows[u].email)
           /\ \E i \in 1..Len(rows) : rows[i].email = e
        THEN [err |-> "email_in_use", users |-> rows]
        ELSE IF \E i \in 1..Len(rows) : i # u /\ rows[i].email = e
        THEN [err |-> "error", users |-> rows]
        ELSE [err |-> "ok", users |-> [rows EXCEPT ![u].email = e]]

(* POST /auth/profile/edit with a valid form.                              *)
EditProfile(email) ==
    /\ current_user # None
    /\ LET r == edit_profile(users, current_user, email)
       IN  /\ users' = r.users
           /\ last' = Outcome("edit_profile", r.err, email, 0)
    /\ UNCHANGED <<product_vars, cart_vars, session_vars, orders,
                   catalog_vars>>

(* ------------------------- order confirmation -------------------------- *)

(* The lookup filtering on the order id alone.                             *)
order_confirmation_any_owner(rows, user, order_id) ==
    IF order_id \in 1..Len(rows)
    THEN [err |-> "ok", shown |-> <<rows[order_id]>>]
    ELSE [err |-> "not_found", shown |-> <<>>]

(* Order.query.filter_by(id=order_id, user_id=current_user.id)             *)
(* .first_or_404(): the response and the order it renders.                 *)
order_confirmation(rows, user, order_id) ==
    IF order_id \in 1..Len(rows) /\ rows[order_id].user_id = user
    THEN [err |-> "ok", shown |-> <<rows[order_id]>>]
    ELSE [err |-> "not_found", shown |-> <<>>]

(* GET /order-confirmation/<order_id> by the logged-in user.               *)
OrderConfirmation(order_id) ==
    /\ current_user # None
    /\ LET r == order_confirmation(orders, current_user, order_id)
       IN  last' = [op |-> "order_confirmation", err |-> r.err,
                    p |-> order_id, q |-> 0, shown |-> r.shown]
    /\ UNCHANGED <<product_vars, cart_vars, session_vars, orders, user_vars,
                   catalog_vars>>

(* --------------------------- prices of lines --------------------------- *)

is_on_sale(p) == sale_price[p] # None /\ sale_price[p] < price[p]

(* Product.update(price=..., sale_price=...): the fields are assigned as   *)
(* given.                                                                  *)
ProductUpdate(p, pr, sale) ==
    /\ price' = [price EXCEPT ![p] = pr]
    /\ sale_price' = [sale_price EXCEPT ![p] = sale]
    /\ last' = Outcome("product_update", "ok", p, 0)
    /\ UNCHANGED <<stock_quantity, is_active, cart_vars, session_vars, orders,
                   user_vars, catalog_vars>>

(* CartItem.update_price on the line of product p in cart k.               *)
UpdatePrice(k, p) ==
    LET i == get_item_by_product(cart_items[k], p)
    IN  /\ i # 0
        /\ cart_items' = [cart_items EXCEPT
                             ![k][i].price = get_effective_price(p)]
        /\ last' = Outcome("update_price", "ok", p, 0)
        /\ UNCHANGED <<product_vars, cart_rows, session_vars, orders,
                       user_vars, catalog_vars>>

(* ------------------------- admin: the catalog -------------------------- *)

(* The gate passing every logged-in requester.                             *)
admin_required_login_only(requester) ==
    IF requester = None THEN "login_redirect" ELSE "ok"

(* @login_required then @admin_required on the requester of the browser.   *)
admin_required(requester) ==
    IF requester = None THEN "login_redirect"
    ELSE IF ~users[requester].is_admin THEN "forbidden"
    ELSE "ok"

(* The request is turned away by the gate and nothing is touched.          *)
AdminDenied(op) ==
    /\ admin_required(current_user) # "ok"
    /\ last' = Outcome(op, admin_required(current_user), 0, 0)
    /\ UNCHANGED <<product_vars, cart_vars, session_vars, orders, user_vars,
                   catalog_vars>>

(* The ProductForm fields the model carries: DataRequired rejects a stock  *)
(* of 0, validate_sale_price a sale price not below the price, the select  *)
(* field a category that does not exist.                                   *)
product_form_valid(stock, pr, sale, cat) ==
    /\ stock # 0
    /\ (sale # None => sale < pr)
    /\ cat \in DOMAIN categories

(* GET /admin/, /admin/products, /admin/categories                         *)
AdminView(page) ==
    \/ AdminDenied(page)
    \/ /\ admin_required(current_user) = "ok"
       /\ last' = Outcome(page, "ok", 0, 0)
       /\ UNCHANGED <<product_vars, cart_vars, session_vars, orders,
                      user_vars, catalog_vars>>

(* POST /admin/products/add: the new row takes the next free id.           *)
AdminAddProduct(stock, active, pr, sale, cat) ==
    \/ AdminDenied("add_product")
    \/ /\ admin_required(current_user) = "ok"
       /\ Products \ product_rows # {}
       /\ LET p == CHOOSE n \in Products \ product_rows :
                      \A m \in Products \ product_rows : n <= m
          IN  IF product_form_valid(stock, pr, sale, cat)
              THEN /\ product_rows' = product_rows \cup {p}
                   /\ stock_quantity' = [stock_quantity EXCEPT ![p] = stock]
                   /\ is_active' = [is_active EXCEPT ![p] = active]
                   /\ price' = [price EXCEPT ![p] = pr]
                   /\ sale_price' = [sale_price EXCEPT ![p] = sale]
                   /\ category_id' = [category_id EXCEPT ![p] = cat]
                   /\ product_name' = [product_name EXCEPT ![p] = FormName(p)]
                   /\ sku' = [sku EXCEPT ![p] = NoSku]
                   /\ last' = Outcome("add_product", "ok", p, stock)
              ELSE /\ UNCHANGED <<product_vars, product_rows, category_id, product_name, sku>>
                   /\ last' = Outcome("add_product", "invalid", 0, stock)
       /\ UNCHANGED <<cart_vars, session_vars, orders, user_vars, categories>>

(* POST /admin/products/<id>/edit through the gate.                        *)
AdminEditProduct(p, stock, active, pr, sale, cat) ==
    \/ AdminDenied("edit_product")
    \/ /\ admin_required(current_user) = "ok"
       /\ IF p \notin product_rows
          THEN /\ UNCHANGED <<product_vars, category_id, product_name, sku>>
               /\ last' = Outcome("edit_product", "not_found", p, stock)
          ELSE IF product_form_valid(stock, pr, sale, cat)
          THEN /\ stock_quantity' = [stock_quantity EXCEPT ![p] = stock]
               /\ is_active' = [is_active EXCEPT ![p] = active]
               /\ price' = [price EXCEPT ![p] = pr]
               /\ sale_price' = [sale_price EXCEPT ![p] = sale]
               /\ category_id' = [category_id EXCEPT ![p] = cat]
               /\ UNCHANGED <<product_name, sku>>
               /\ last' = Outcome("edit_product", "ok", p, stock)
          ELSE /\ UNCHANGED <<product_vars, category_id, product_name, sku>>
               /\ last' = Outcome("edit_product", "invalid", p, stock)
       /\ UNCHANGED <<cart_vars, session_vars, orders, user_vars, categories,
                      product_rows>>

(* A cart line or an order line holds the product: its product_id is NOT   *)
(* NULL, so the delete of the product fails on commit.                     *)
product_is_referenced(p) ==
    \/ \E k \in CartKeys : get_item_by_product(cart_items[k], p) # 0
    \/ \E i \in 1..Len(orders) :
          \E j \in 1..Len(orders[i].items) : orders[i].items[j].product_id = p

(* POST /admin/products/<id>/delete                                        *)
AdminDeleteProduct(p) ==
    \/ AdminDenied("delete_product")
    \/ /\ admin_required(current_user) = "ok"
       /\ IF p \notin product_rows
          THEN /\ UNCHANGED product_rows
               /\ last' = Outcome("delete_product", "not_found", p, 0)
          ELSE IF product_is_referenced(p)
          THEN /\ UNCHANGED product_rows
               /\ last' = Outcome("delete_product", "error", p, 0)
          ELSE /\ product_rows' = product_rows \ {p}
               /\ last' = Outcome("delete_product", "ok", p, 0)
       /\ UNCHANGED <<product_vars, cart_vars, session_vars, orders,
                      user_vars, categories, category_id, product_name, sku>>

(* The category rows without the row of id c.                              *)
WithoutCategory(rows, c) == [d \in DOMAIN rows \ {c} |-> rows[d]]

(* POST /admin/categories/add: validate_name refuses a name in use; the    *)
(* unique constraint on categories.slug refuses the commit of a slug in    *)
(* use.                                                                    *)
AdminAddCategory(name) ==
    \/ AdminDenied("add_category")
    \/ /\ admin_required(current_user) = "ok"
       /\ CategoryIds \ DOMAIN categories # {}
       /\ LET c == CHOOSE n \in CategoryIds \ DOMAIN categories :
                      \A m \in CategoryIds \ DOMAIN categories : n <= m
          IN  IF \E d \in DOMAIN categories : categories[d].name = name
              THEN /\ UNCHANGED categories
                   /\ last' = Outcome("add_category", "invalid", 0, 0)
              ELSE IF \E d \in DOMAIN categories :
                          categories[d].slug = generate_slug(name)
              THEN /\ UNCHANGED categories
                   /\ last' = Outcome("add_category", "error", 0, 0)
              ELSE /\ categories' = [d \in DOMAIN categories \cup {c} |->
                                        IF d = c THEN Category(name)
                                        ELSE categories[d]]
                   /\ last' = Outcome("add_category", "ok", c, 0)
       /\ UNCHANGED <<product_vars, cart_vars, session_vars, orders,
                      user_vars, product_rows, category_id, product_name, sku>>

(* POST /admin/categories/<id>/edit: the view assigns category.name and    *)
(* commits.                                                                *)
AdminEditCategory(c, name) ==
    \/ AdminDenied("edit_category")
    \/ /\ admin_required(current_user) = "ok"
       /\ IF c \notin DOMAIN categories
          THEN /\ UNCHANGED categories
               /\ last' = Outcome("edit_category", "not_found", c, 0)
          ELSE IF \E d \in DOMAIN categories \ {c} : categories[d].name = name
          THEN /\ UNCHANGED categories
               /\ last' = Outcome("edit_category", "invalid", c, 0)
          ELSE /\ categories' = [categories EXCEPT ![c].name = name]
               /\ last' = Outcome("edit_category", "ok", c, 0)
       /\ UNCHANGED <<product_vars, cart_vars, session_vars, orders,
                      user_vars, product_rows, category_id, product_name, sku>>

(* POST /admin/categories/<id>/delete: 'if category.products:' refuses.    *)
AdminDeleteCategory(c) ==
    \/ AdminDenied("delete_category")
    \/ /\ admin_required(current_user) = "ok"
       /\ IF c \notin DOMAIN categories
          THEN /\ UNCHANGED categories
               /\ last' = Outcome("delete_category", "not_found", c, 0)
          ELSE IF query_is_true(category_products(c))
          THEN /\ UNCHANGED categories
               /\ last' = Outcome("delete_category", "refused", c, 0)
          ELSE /\ categories' = WithoutCategory(categories, c)
               /\ last' = Outcome("delete_category", "ok", c, 0)
       /\ UNCHANGED <<product_vars, cart_vars, session_vars, orders,
                      user_vars, product_rows, category_id, product_name, sku>>

(* category.update(name=...) and the commit of the caller, which the       *)
(* unique constraints on name and slug refuse when another row holds them. *)
CategoryUpdate(c, name) ==
    /\ c \in DOMAIN categories
    /\ IF \E d \in DOMAIN categories \ {c} :
             \/ categories[d].name = name
             \/ categories[d].slug = generate_slug(name)
       THEN /\ UNCHANGED categories
            /\ last' = Outcome("category_update", "error", c, 0)
       ELSE /\ categories' =
                  [categories EXCEPT ![c] = category_update(@, name)]
            /\ last' = Outcome("category_update", "ok", c, 0)
    /\ UNCHANGED <<product_vars, cart_vars, session_vars, orders, user_vars,
                   product_rows, category_id, product_name, sku>>

(* ------------------------ sample-data scripts -------------------------- *)

(* Product.generate_slug on a name given as its characters: lower(), the   *)
(* characters outside [a-z0-9\s-] removed, each run of whitespace replaced *)
(* by one '-', and the '-' at both ends stripped.                          *)
SlugCharacters ==
    {LowerCase[i] : i \in 1..Len(LowerCase)}
        \cup {"0", "1", "2", "3", "4", "5", "6", "7", "8", "9", " ", "-"}

RECURSIVE LowerKept(_)
LowerKept(name) ==
    IF name = <<>> THEN <<>>
    ELSE LET c == LowerChar(Head(name))
         IN  (IF c \in SlugCharacters THEN <<c>> ELSE <<>>)
                \o LowerKept(Tail(name))

RECURSIVE SkipSpaces(_)
SkipSpaces(s) ==
    IF s # <<>> /\ Head(s) = " " THEN SkipSpaces(Tail(s)) ELSE s

RECURSIVE DashSpaces(_)
DashSpaces(s) ==
    IF s = <<>> THEN <<>>
    ELSE IF Head(s) = " " THEN <<"-">> \o DashSpaces(SkipSpaces(s))
    ELSE <<Head(s)>> \o DashSpaces(Tail(s))

RECURSIVE StripDashes(_)
StripDashes(s) ==
    IF s = <<>> THEN s
    ELSE IF Head(s) = "-" THEN StripDashes(Tail(s))
    ELSE IF s[Len(s)] = "-" THEN StripDashes(SubSeq(s, 1, Len(s) - 1))
    ELSE s

product_generate_slug(name) == StripDashes(DashSpaces(LowerKept(name)))

(* The rows of the scripts' lists the model carries: the categories        *)
(* 'Clothing' and 'Home & Garden' and the products 'Denim Jeans' and       *)
(* 'LED Desk Lamp'.  create_sample_data.py (script 1) leaves the slug to   *)
(* Category.__init__, create_sample_data_with_images.py (script 2) passes  *)
(* the slug as a literal.  Prices are in the units of the model, the       *)
(* stock is the largest stock of the model.                                *)
Clothing == <<"C", "l", "o", "t", "h", "i", "n", "g">>

HomeAndGarden == <<"H", "o", "m", "e", " ", "&", " ", "G", "a", "r", "d", "e", "n">>

DenimJeans == <<"D", "e", "n", "i", "m", " ", "J", "e", "a", "n", "s">>

LEDDeskLamp == <<"L", "E", "D", " ", "D", "e", "s", "k", " ", "L", "a", "m", "p">>

categories_data(script) ==
    IF script = 1
    THEN <<Category(Clothing), Category(HomeAndGarden)>>
    ELSE <<[name |-> Clothing, slug |-> <<"c", "l", "o", "t", "h", "i", "n", "g">>],
           [name |-> HomeAndGarden,
            slug |-> 
                <<"h", "o", "m", "e", "-", "a", "n", "d", "-", "g", "a", "r", "d", "e", "n">>]>>

products_data ==
    <<[name |-> DenimJeans, sku |-> "CLO-DJ-006", price |-> 20,
       sale_price |-> 10, category |-> Clothing],
      [name |-> LEDDeskLamp, sku |-> "HGD-LDL-012", price |-> 20,
       sale_price |-> None, category |-> HomeAndGarden]>>

(* The tables the scripts read and write, as one record.                   *)
Database ==
    [categories |-> categories, product_rows |-> product_rows,
     category_id |-> category_id, product_name |-> product_name,
     sku |-> sku, stock_quantity |-> stock_quantity,
     is_active |-> is_active, price |-> price, sale_price |-> sale_price,
     users |-> users]

(* One turn of the category loop: the lookup by name, and for a name not   *)
(* found the insert, which the unique constraint on categories.slug        *)
(* refuses (IntegrityError) when another row holds the slug.               *)
seed_category(db, cat_data) ==
    LET free == CategoryIds \ DOMAIN db.categories
    IN  IF \E c \in DOMAIN db.categories :
              db.categories[c].name = cat_data.name
        THEN [err |-> "ok", db |-> db]
        ELSE IF free = {} THEN [err |-> "bound", db |-> db]
        ELSE IF \E c \in DOMAIN db.categories :
                   db.categories[c].slug = cat_data.slug
        THEN [err |-> "integrity", db |-> db]
        ELSE LET id == CHOOSE n \in free : \A m \in free : n <= m
             IN  [err |-> "ok",
                  db |-> [db EXCEPT !.categories =
                            [c \in DOMAIN db.categories \cup {id} |->
                                IF c = id THEN cat_data
                                ELSE db.categories[c]]]]

RECURSIVE seed_categories(_, _, _)
(* The category loop from the i-th row of the list on; it stops at the     *)
(* first error with the rows inserted so far.                              *)
seed_categories(db, data, i) ==
    IF i > Len(data) THEN [err |-> "ok", db |-> db]
    ELSE LET r == seed_category(db, data[i])
         IN  IF r.err # "ok" THEN r ELSE seed_categories(r.db, data, i + 1)

(* One turn of the product loop: the lookup by name, and for a name not    *)
(* found the insert into the category of the row's name, which the unique  *)
(* constraints on products.sku and products.slug refuse.                   *)
seed_product(db, product_data) ==
    LET free == Products \ db.product_rows
        category == CHOOSE c \in DOMAIN db.categories :
                        db.categories[c].name = product_data.category
    IN  IF \E p \in db.product_rows :
              db.product_name[p] = product_data.name
        THEN [err |-> "ok", db |-> db]
        ELSE IF free = {} THEN [err |-> "bound", db |-> db]
        ELSE IF \E p \in db.product_rows :
                   \/ db.sku[p] = product_data.sku
                   \/ product_generate_slug(db.product_name[p])
                         = product_generate_slug(product_data.name)
        THEN [err |-> "integrity", db |-> db]
        ELSE LET id == CHOOSE n \in free : \A m \in free : n <= m
             IN  [err |-> "ok",
                  db |-> [db EXCEPT
                            !.product_rows = @ \cup {id},
                            !.product_name[id] = product_data.name,
                            !.sku[id] = product_data.sku,
                            !.category_id[id] = category,
                            !.price[id] = product_data.price,
                            !.sale_price[id] = product_data.sale_price,
                            !.stock_quantity[id] = MaxStock,
                            !.is_active[id] = TRUE]]

RECURSIVE seed_products(_, _, _)
seed_products(db, data, i) ==
    IF i > Len(data) THEN [err |-> "ok", db |-> db]
    ELSE LET r == seed_product(db, data[i])
         IN  IF r.err # "ok" THEN r ELSE seed_products(r.db, data, i + 1)

(* The demo-account step adding the account without looking it up, on a    *)
(* table that accepts the row.                                             *)
seed_user_without_lookup(rows, username, email, password, admin) ==
    IF Len(rows) >= Cardinality(Users)
    THEN [err |-> "bound", users |-> rows]
    ELSE [err |-> "ok",
          users |-> Append(rows, User(username, email, password, TRUE, admin))]

(* A demo account: the lookup by username, and for a username not found    *)
(* the creation, which fails when another row holds the email (ValueError   *)
(* of User.create_user in script 1, IntegrityError of the commit in        *)
(* script 2).                                                              *)
seed_user(rows, username, email, password, admin) ==
    IF \E i \in 1..Len(rows) : rows[i].username = username
    THEN [err |-> "ok", users |-> rows]
    ELSE IF Len(rows) >= Cardinality(Users)
    THEN [err |-> "bound", users |-> rows]
    ELSE create_user(rows, username, email, password, TRUE, admin)

(* create_sample_data() of script 1: one session; the categories are       *)
(* flushed, the products pending, User.create_user commits the session,    *)
(* and an exception ends the script with the uncommitted rows lost.        *)
create_sample_data(db) ==
    LET c == seed_categories(db, categories_data(1), 1)
        p == seed_products(c.db, products_data, 1)
        a == seed_user(p.db.users, "admin", "admin@example.com", "admin123",
                       TRUE)
        created == Len(a.users) > Len(p.db.users)
        t == seed_user(a.users, "testuser", "test@example.com", "test123",
                       FALSE)
    IN  IF c.err # "ok" THEN [err |-> c.err, db |-> db]
        ELSE IF p.err # "ok" THEN [err |-> p.err, db |-> db]
        ELSE IF a.err # "ok" THEN [err |-> a.err, db |-> db]
        ELSE IF t.err # "ok"
        THEN [err |-> t.err,
              db |-> IF created THEN [p.db EXCEPT !.users = a.users] ELSE db]
        ELSE [err |-> "ok", db |-> [p.db EXCEPT !.users = t.users]]

(* create_sample_data() of script 2: every insert is committed at once, an *)
(* existing product only gets its image, the admin account is created when *)
(* absent and the test account is only looked up; an exception ends the    *)
(* script with the rows committed so far.                                  *)
create_sample_data_with_images(db) ==
    LET c == seed_categories(db, categories_data(2), 1)
        p == seed_products(c.db, products_data, 1)
        a == seed_user(p.db.users, "admin", "admin@example.com", "admin123",
                       TRUE)
    IN  IF c.err # "ok" THEN c
        ELSE IF p.err # "ok" THEN p
        ELSE IF a.err # "ok" THEN [err |-> a.err, db |-> p.db]
        ELSE [err |-> "ok", db |-> [p.db EXCEPT !.users = a.users]]

(* The number of rows of the three tables.                                 *)
RowCount(db) ==
    Cardinality(DOMAIN db.categories) + Cardinality(db.product_rows)
        + Len(db.users)

(* python create_sample_data.py (script 1) or                              *)
(* python create_sample_data_with_images.py (script 2); the outcome        *)
(* records the number of rows the run inserted.                            *)
RunSampleData(script) ==
    LET r == IF script = 1 THEN create_sample_data(Database)
             ELSE create_sample_data_with_images(Database)
    IN  /\ r.err # "bound"
        /\ categories' = r.db.categories
        /\ product_rows' = r.db.product_rows
        /\ category_id' = r.db.category_id
        /\ product_name' = r.db.product_name
        /\ sku' = r.db.sku
        /\ stock_quantity' = r.db.stock_quantity
        /\ is_active' = r.db.is_active
        /\ price' = r.db.price
        /\ sale_price' = r.db.sale_price
        /\ users' = r.db.users
        /\ last' = Outcome("create_sample_data", r.err, script,
                           RowCount(r.db) - RowCount(Database))
        /\ UNCHANGED <<cart_vars, session_vars, orders>>

(* A database before the first run of a script: empty, or holding a        *)
(* category, a product or an account that meets the rows of the scripts.   *)
InitSample ==
    /\ stock_quantity = [p \in Products |-> MaxStock]
    /\ is_active = [p \in Products |-> TRUE]
    /\ price = [p \in Products |-> 10]
    /\ sale_price = [p \in Products |-> None]
    /\ cart_rows = {}
    /\ cart_items = [k \in CartKeys |-> <<>>]
    /\ cart_session_id = None
    /\ current_user = None
    /\ orders = <<>>
    /\ categories \in {<<>>, 1 :> Category(Clothing),
                       1 :> Category(LowerKept(Clothing))}
    /\ product_rows \in {{}, {1}}
    /\ product_rows # {} => categories # <<>>
    /\ category_id = [p \in Products |-> 1]
    /\ \E n \in {DenimJeans, LowerKept(DenimJeans), FormName(1)} :
          product_name = [p \in Products |-> IF p = 1 THEN n ELSE FormName(p)]
    /\ \E k \in {NoSku, "HGD-LDL-012"} :
          sku = [p \in Products |-> IF p = 1 THEN k ELSE NoSku]
    /\ (product_rows = {} => product_name[1] = FormName(1) /\ sku[1] = NoSku)
    /\ users \in {<<>>,
                  <<User("ann", "ann@x", "pw1", TRUE, FALSE)>>,
                  <<User("admin", "root@x", "pw1", TRUE, TRUE)>>,
                  <<User("root", "admin@example.com", "pw1", TRUE, TRUE)>>,
                  <<User("zed", "test@example.com", "pw1", TRUE, FALSE)>>}
    /\ db_sessions = [u \in Users |-> NoRequest]
    /\ last = Outcome("init", "ok", 0, 0)

(* ------------------------------ start-up ------------------------------- *)

(* The value of os.environ.get for a variable that is not set (Python      *)
(* None), among values that are strings.                                   *)
Unset == "(unset)"

(* config/config.py: the dictionary from configuration names to classes.   *)
config ==
    [n \in {"development", "testing", "production", "default"} |->
        CASE n = "testing" -> "TestingConfig"
          [] n = "production" -> "ProductionConfig"
          [] OTHER -> "DevelopmentConfig"]

(* os.environ.get(name, default) on the value of the variable.             *)
environ_get(value, default) == IF value = Unset THEN default ELSE value

(* create_app(config_name) with FLASK_ENV = flask_env: the configuration   *)
(* class loaded, or the KeyError of config[config_name].                   *)
create_app(config_name, flask_env) ==
    LET name == IF config_name = Unset
                THEN environ_get(flask_env, "development")
                ELSE config_name
    IN  IF name \in DOMAIN config
        THEN [err |-> "ok", profile |-> config[name]]
        ELSE [err |-> "KeyError", profile |-> Unset]

(* The argument each entry point passes to create_app: run.py passes       *)
(* os.getenv('FLASK_ENV') or 'development', create_sample_data.py          *)
(* 'development', create_sample_data_with_images.py nothing.               *)
EntryPoints == {"run.py", "create_sample_data.py",
                "create_sample_data_with_images.py"}

entry_config_name(entry, flask_env) ==
    CASE entry = "run.py" ->
            IF flask_env \in {Unset, ""} THEN "development" ELSE flask_env
      [] entry = "create_sample_data.py" -> "development"
      [] OTHER -> Unset

(* The application is started through an entry point with FLASK_ENV set    *)
(* to flask_env, or not set.                                               *)
StartUp(entry, flask_env) ==
    LET r == create_app(entry_config_name(entry, flask_env), flask_env)
    IN  /\ last' = [op |-> "create_app", err |-> r.err, p |-> flask_env,
                    q |-> entry, profile |-> r.profile]
        /\ UNCHANGED <<product_vars, cart_vars, session_vars, orders,
                       user_vars, catalog_vars>>

(* ----------------------------- run_tests.py ---------------------------- *)

(* parser.parse_args(): --all is a store_true flag whose default is True,  *)
(* so args.all is True with and without the flag; then a chosen suite      *)
(* turns args.all off.                                                     *)
parse_args(flags) ==
    [flags EXCEPT !.all = ~(flags.unit \/ flags.selenium)]

(* main(): the suites run and the exit code.  unit_ok and selenium_ok are  *)
(* the results run_unit_tests and run_selenium_tests return when called    *)
(* (False also when the subprocess raised).                                *)
main(flags, unit_ok, selenium_ok) ==
    LET args == parse_args(flags)
        run_unit == args.all \/ args.unit
        run_selenium == args.all \/ args.selenium
        unit_passed == IF run_unit THEN unit_ok ELSE TRUE
        selenium_passed == IF run_selenium THEN selenium_ok ELSE TRUE
    IN  [run_unit |-> run_unit, run_selenium |-> run_selenium,
         exit |-> IF \/ (args.all /\ unit_passed /\ selenium_passed)
                     \/ (args.unit /\ unit_passed)
                     \/ (args.selenium /\ selenium_passed)
                  THEN 0 ELSE 1]

(* python run_tests.py with the given flags, the suites ending as given.   *)
RunTests(flags, unit_ok, selenium_ok) ==
    LET r == main(flags, unit_ok, selenium_ok)
    IN  /\ last' = [op |-> "run_tests", err |-> r.exit, p |-> flags,
                    q |-> [unit_ok |-> unit_ok, selenium_ok |-> selenium_ok],
                    run_unit |-> r.run_unit, run_selenium |-> r.run_selenium]
        /\ UNCHANGED <<product_vars, cart_vars, session_vars, orders,
                       user_vars, catalog_vars>>

(* ---------------------- checkout, statement by statement --------------- *)
(* A POST /checkout of user u as the statements it sends to the database:  *)
(* the reads of the route, the transaction of Order.create_from_cart and   *)
(* the transaction of Cart.clear_cart.  Each request has its own session;  *)
(* the objects the session has loaded keep their attribute values until    *)
(* its next commit or rollback, whatever other requests commit meanwhile.  *)
(* No statement locks a row and no column carries a version.               *)

MaxCheckouts == 2

(* What the request has loaded after the route's checks: the cart lines    *)
(* and the products of the lines.                                          *)
LoadRequest(u) ==
    [pc |-> "validated", stock |-> stock_quantity, active |-> is_active,
     items |-> cart_items[u]]

(* cart.validate_stock_availability() on the loaded objects.               *)
validate_loaded(s) ==
    {i \in 1..Len(s.items) :
        \/ ~s.active[s.items[i].product_id]
        \/ s.items[i].quantity > s.stock[s.items[i].product_id]}

(* Order.create_from_cart on the loaded objects, up to the commit: the     *)
(* error, the order and the stock attribute of the loaded products.        *)
create_from_loaded(user, s) ==
    IF is_empty(s.items)
    THEN [err |-> "empty", order |-> NewOrder(user, ""), stock |-> s.stock]
    ELSE IF validate_loaded(s) # {}
    THEN [err |-> "unavailable", order |-> NewOrder(user, ""),
          stock |-> s.stock]
    ELSE LET o0 == [NewOrder(user, "") EXCEPT
                        !.items = add_items_from_cart(s.items)]
             t == calculate_totals(o0)
             r == order_reserve_stock(s.stock, t.order.items)
         IN  IF t.err # "ok"
             THEN [err |-> t.err, order |-> o0, stock |-> s.stock]
             ELSE IF r.err # "ok"
             THEN [err |-> r.err, order |-> o0, stock |-> s.stock]
             ELSE [err |-> "ok", order |-> Commit(t.order), stock |-> r.stock]

(* The commit leaving the products as the database has them.               *)
flush_stock_skipped(db_stock, loaded_stock, items) == db_stock

(* The UPDATE statements of the commit: stock_quantity is set to the value *)
(* of the loaded attribute for each product reserve_stock assigned to; the *)
(* other product rows are not written.                                     *)
flush_stock(db_stock, loaded_stock, items) ==
    [p \in Products |->
        IF \E i \in 1..Len(items) : items[i].product_id = p
        THEN loaded_stock[p] ELSE db_stock[p]]

(* The number of requests between their first read and their last commit.  *)
InFlight == Cardinality({u \in Users : db_sessions[u].pc # "idle"})

(* POST /checkout of user u with a valid form, up to the payment: the cart *)
(* of the user is fetched (created if missing) and checked.                *)
CheckoutBegin(u) ==
    /\ u \in 1..Len(users)
    /\ users[u].is_active
    /\ db_sessions[u].pc = "idle"
    /\ Len(orders) + InFlight < MaxCheckouts
    /\ cart_rows' = cart_rows \cup {u}
    /\ IF is_empty(cart_items[u])
       THEN /\ last' = Outcome("checkout", "empty", u, 0)
            /\ UNCHANGED db_sessions
       ELSE IF validate_stock_availability(cart_items[u]) # {}
       THEN /\ last' = Outcome("checkout", "unavailable", u, 0)
            /\ UNCHANGED db_sessions
       ELSE /\ last' = Outcome("checkout", "validated", u, 0)
            /\ db_sessions' = [db_sessions EXCEPT ![u] = LoadRequest(u)]
    /\ UNCHANGED <<product_vars, cart_items, cart_session_id, current_user,
                   orders, user_vars, catalog_vars>>

(* The request of u after time.sleep(1): the simulated payment, then       *)
(* Order.create_from_cart.  db_ok is whether the database takes the        *)
(* statements of the transaction; an exception is caught by the route,     *)
(* which rolls the session back.                                           *)
CheckoutCreate(u, pay_ok, db_ok) ==
    LET s == db_sessions[u]
        c == create_from_loaded(u, s)
    IN  /\ s.pc = "validated"
        /\ IF ~pay_ok
           THEN /\ last' = Outcome("checkout", "payment_failed", u, 0)
                /\ db_sessions' = [db_sessions EXCEPT ![u] = NoRequest]
                /\ UNCHANGED <<stock_quantity, orders>>
           ELSE IF c.err # "ok" \/ ~db_ok
           THEN /\ last' = Outcome("checkout", "error", u, 0)
                /\ db_sessions' = [db_sessions EXCEPT ![u] = NoRequest]
                /\ UNCHANGED <<stock_quantity, orders>>
           ELSE /\ last' = Outcome("checkout", "created", u, 0)
                /\ orders' = Append(orders, c.order)
                /\ stock_quantity' =
                      flush_stock(stock_quantity, c.stock, c.order.items)
                /\ db_sessions' = [db_sessions EXCEPT ![u].pc = "created"]
        /\ UNCHANGED <<is_active, price, sale_price, cart_vars,
                       cart_session_id, current_user, user_vars,
                       catalog_vars>>

(* The request of u after create_from_cart committed: cart.clear_cart()    *)
(* deletes the lines the cart has now and commits.  db_ok as above; on an  *)
(* exception the route rolls back the deletes and shows the error.         *)
CheckoutClear(u, db_ok) ==
    /\ db_sessions[u].pc = "created"
    /\ db_sessions' = [db_sessions EXCEPT ![u] = NoRequest]
    /\ IF db_ok
       THEN /\ cart_items' = [cart_items EXCEPT ![u] = clear_cart(@)]
            /\ last' = Outcome("checkout", "ok", u, 0)
       ELSE /\ UNCHANGED cart_items
            /\ last' = Outcome("checkout", "error", u, 0)
    /\ UNCHANGED <<product_vars, cart_rows, cart_session_id, current_user,
                   orders, user_vars, catalog_vars>>

(* Two customers, each with a cart of product 1 and possibly product 2,    *)
(* lines within the stock; the products as they were created.              *)
CartOf(q1, q2) ==
    (IF q1 > 0 THEN <<CartItem(1, q1, 10)>> ELSE <<>>)
        \o (IF q2 > 0 THEN <<CartItem(2, q2, 10)>> ELSE <<>>)

InitRace ==
    /\ stock_quantity = [p \in Products |-> MaxStock]
    /\ is_active = [p \in Products |-> TRUE]
    /\ price = [p \in Products |-> 10]
    /\ sale_price = [p \in Products |-> None]
    /\ cart_rows = {1, 2}
    /\ \E a1, b1 \in 1..MaxQty, a2, b2 \in 0..MaxQty :
          cart_items = [k \in CartKeys |->
                            IF k = 1 THEN CartOf(a1, a2)
                            ELSE IF k = 2 THEN CartOf(b1, b2) ELSE <<>>]
    /\ cart_session_id = None
    /\ current_user = None
    /\ orders = <<>>
    /\ users = <<User("ann", "ann@x", "pw1", TRUE, FALSE),
                 User("bob", "bob@x", "pw2", TRUE, FALSE)>>
    /\ categories = (1 :> Category(<<"B", "o", "o", "k", "s">>))
    /\ product_rows = Products
    /\ category_id = [p \in Products |-> 1]
    /\ product_name = [p \in Products |-> FormName(p)]
    /\ sku = [p \in Products |-> NoSku]
    /\ db_sessions = [u \in Users |-> NoRequest]
    /\ last = Outcome("init", "ok", 0, 0)

(* ------------------- tests/selenium/test_runner.py --------------------- *)
(* The run of TestRunner.run_tests in an environment env:                  *)
(*   reachable  the first is_app_running() finds an application            *)
(*   popen      "ok", or "OSError" when subprocess.Popen raises            *)
(*   wait       the waiting loop: the application comes "up", the loop     *)
(*              ends by "timeout", or an "interrupt" (SIGINT) arrives      *)
(*   accessible the is_app_running() of run_tests                          *)
(*   body       pytest.main: "passed", "failed", "raised", "interrupt"     *)
(*   graceful   the process ends within 5 seconds of terminate()           *)
(*   handlers   main() has installed its signal handlers (the runner was   *)
(*              started as a script); without them SIGINT raises           *)
(*              KeyboardInterrupt where the program is                     *)
(* flask_process is "none", "running" or "stopped".                        *)

(* stop_flask_app: terminate(), then kill() when wait(timeout=5) expires.  *)
stop_flask_app(flask_process, graceful) ==
    IF flask_process = "running" THEN "stopped" ELSE flask_process

(* SIGINT where the program is: the handler of main() stops the process    *)
(* and calls sys.exit(1); the default handler raises KeyboardInterrupt.    *)
interrupt(flask_process, env) ==
    IF env.handlers
    THEN [raised |-> "SystemExit",
          flask_process |-> stop_flask_app(flask_process, env.graceful)]
    ELSE [raised |-> "KeyboardInterrupt", flask_process |-> flask_process]

(* start_flask_app: what it raises ("" when it returns) and the process.   *)
(* "except Exception" catches the OSError of Popen and the timeout, not    *)
(* KeyboardInterrupt or SystemExit.                                        *)
start_flask_app(env) ==
    IF env.reachable THEN [raised |-> "", flask_process |-> "none"]
    ELSE IF env.popen # "ok"
    THEN [raised |-> "Exception",
          flask_process |-> stop_flask_app("none", env.graceful)]
    ELSE IF env.wait = "up" THEN [raised |-> "", flask_process |-> "running"]
    ELSE IF env.wait = "timeout"
    THEN [raised |-> "Exception",
          flask_process |-> stop_flask_app("running", env.graceful)]
    ELSE interrupt("running", env)

(* run_tests: "with self.flask_app()" calls start_flask_app outside its    *)
(* try, then runs the body and stop_flask_app in the finally.              *)
run_tests(env) ==
    LET s == start_flask_app(env)
        b == IF ~env.accessible THEN [raised |-> "", exit |-> 1,
                                      flask_process |-> s.flask_process]
             ELSE IF env.body = "passed"
             THEN [raised |-> "", exit |-> 0,
                   flask_process |-> s.flask_process]
             ELSE IF env.body = "failed"
             THEN [raised |-> "", exit |-> 1,
                   flask_process |-> s.flask_process]
             ELSE IF env.body = "raised"
             THEN [raised |-> "Exception", exit |-> None,
                   flask_process |-> s.flask_process]
             ELSE [raised |-> interrupt(s.flask_process, env).raised,
                   exit |-> None,
                   flask_process |->
                        interrupt(s.flask_process, env).flask_process]
    IN  IF s.raised # ""
        THEN [raised |-> s.raised, exit |-> None,
              flask_process |-> s.flask_process]
        ELSE [raised |-> b.raised, exit |-> b.exit,
              flask_process |-> stop_flask_app(b.flask_process, env.graceful)]

(* One run of the browser-test runner in the environment env.              *)
TestRunnerRun(env) ==
    LET r == run_tests(env)
    IN  /\ last' = [op |-> "test_runner", err |-> r.raised, p |-> env,
                    q |-> r.exit, flask_process |-> r.flask_process,
                    launched |-> (~env.reachable /\ env.popen = "ok")]
        /\ UNCHANGED <<product_vars, cart_vars, session_vars, orders,
                       user_vars, catalog_vars>>

(* ------------------------- specifications ------------------------------ *)

(* Cart operations, login with merge, logout and admin edits.              *)
NextCart ==
    \/ \E p \in Products, q \in 1..MaxQty : AddToCart(p, q)
    \/ \E p \in Products, q \in -1..MaxQty : UpdateCart(p, q)
    \/ \E p \in Products : RemoveFromCart(p)
    \/ ClearCart
    \/ \E u \in Users : Login(u)
    \/ Logout
    \/ \E p \in Products, stock \in 0..MaxStock, active \in BOOLEAN,
          pr \in PriceChoices, sale \in SalePriceChoices :
            EditProduct(p, stock, active, pr, sale)

Spec == Init /\ [][NextCart]_vars

(* Filling a cart, as a guest or logged in, and checking out.               *)
NextCheckout ==
    \/ \E p \in Products, q \in 1..MaxQty : AddToCart(p, q)
    \/ \E u \in Users : Login(u)
    \/ \E pay_ok \in BOOLEAN : Checkout(pay_ok, "")

SpecCheckout == Init /\ [][NextCheckout]_vars

(* Checking out while an administrator edits product 1: the cart takes    *)
(* product 1 in any quantity and product 2 in the largest quantity.        *)
NextAdmin ==
    \/ \E q \in 1..MaxQty : AddToCart(1, q)
    \/ AddToCart(2, MaxQty)
    \/ \E u \in Users : Login(u)
    \/ \E pay_ok \in BOOLEAN : Checkout(pay_ok, "")
    \/ \E stock \in 0..MaxStock, active \in BOOLEAN,
          pr \in PriceChoices, sale \in SalePriceChoices :
            EditProduct(1, stock, active, pr, sale)

SpecAdmin == Init /\ [][NextAdmin]_vars

(* Direct stock calls on the products, and orders of product 1 created    *)
(* from carts.                                                             *)
NextStock ==
    \/ \E p \in Products, q \in -1..MaxQty : ReserveStock(p, q)
    \/ \E p \in Products, q \in -1..MaxQty : ReleaseStock(p, q)
    \/ \E p \in Products, n \in -1..MaxStock : UpdateStock(p, n)
    \/ \E q \in 1..MaxQty : AddToCart(1, q)
    \/ \E u \in Users : Login(u)
    \/ \E pay_ok \in BOOLEAN : Checkout(pay_ok, "")

SpecStock == Init /\ [][NextStock]_vars

(* Orders placed by checkout, then status, payment and totals calls.       *)
NextOrder ==
    \/ \E p \in Products, q \in 1..MaxQty : AddToCart(p, q)
    \/ \E u \in Users : Login(u)
    \/ \E pay_ok \in BOOLEAN : Checkout(pay_ok, "")
    \/ \E i \in 1..MaxOrders, st \in OrderStatus : UpdateStatus(i, st, "")
    \/ \E i \in 1..MaxOrders, st \in PaymentStatus :
            UpdatePaymentStatus(i, st)
    \/ \E i \in 1..MaxOrders : CalculateTotals(i)

SpecOrder == Init /\ [][NextOrder]_vars

(* Orders placed with or without a customer note, then status changes with *)
(* or without an accompanying note.                                        *)
NextNotes ==
    \/ \E p \in Products : AddToCart(p, 1)
    \/ \E u \in Users : Login(u)
    \/ \E note \in {"", "gift"} : Checkout(TRUE, note)
    \/ \E i \in 1..MaxOrders, st \in {"confirmed", "shipped", "cancelled"},
          note \in {"", "checked"} :
            UpdateStatus(i, st, note)

SpecNotes == Init /\ [][NextNotes]_vars

(* Accounts: direct create_user and authenticate calls, the login form,   *)
(* logout and the profile form.                                            *)
NextUsers ==
    \/ \E username \in {"ann", "bob", "bob@x"},
          email \in {"ann@x", "bob@x", "Bob@x"},
          password \in {"pw1", "pw2"}, active \in BOOLEAN :
            CreateUser(username, email, password, active, FALSE)
    \/ \E identifier \in {"ann", "bob", "bob@x", "zed"},
          password \in {"pw1", "pw2"} :
            Authenticate(identifier, password)
    \/ \E identifier \in {"ann", "Bob", "bob@x", "zed"},
          password \in {"pw1", "pw2"} :
            LoginAttempt(identifier, password)
    \/ Logout
    \/ \E email \in {"ann@x", "Bob@x", "cat@x"} : EditProfile(email)

SpecUsers == Init /\ [][NextUsers]_vars

(* The admin pages requested by an anonymous visitor, by the customer and  *)
(* by an administrator, and Category.update called directly.               *)
CategoryNames ==
    {<<"B", "o", "o", "k", "s">>, <<"T", "o", "y", "s">>, <<"A", " ", "&">>}

NextCatalog ==
    \/ CreateUser("root", "root@x", "pw2", TRUE, TRUE)
    \/ \E identifier \in {"ann", "root"}, password \in {"pw1", "pw2"} :
            LoginAttempt(identifier, password)
    \/ Logout
    \/ \E page \in {"dashboard", "products", "categories"} : AdminView(page)
    \/ \E stock \in {0, 1}, cat \in CategoryIds :
            AdminAddProduct(stock, TRUE, 10, None, cat)
    \/ \E stock \in {0, 1}, cat \in CategoryIds :
            AdminEditProduct(1, stock, TRUE, 10, None, cat)
    \/ \E p \in Products : AdminDeleteProduct(p)
    \/ \E name \in CategoryNames : AdminAddCategory(name)
    \/ \E c \in CategoryIds, name \in CategoryNames :
            AdminEditCategory(c, name)
    \/ \E c \in CategoryIds : AdminDeleteCategory(c)
    \/ \E c \in CategoryIds, name \in CategoryNames : CategoryUpdate(c, name)

SpecCatalog == Init /\ [][NextCatalog]_vars

(* Two customers placing orders and asking for order confirmations.        *)
NextConfirm ==
    \/ CreateUser("bob", "bob@x", "pw2", TRUE, FALSE)
    \/ \E identifier \in {"ann", "bob"}, password \in {"pw1", "pw2"} :
            LoginAttempt(identifier, password)
    \/ Logout
    \/ AddToCart(1, 1)
    \/ Checkout(TRUE, "")
    \/ \E order_id \in 1..(MaxOrders + 1) : OrderConfirmation(order_id)

SpecConfirm == Init /\ [][NextConfirm]_vars

(* Product 1 repriced while it lies in carts and is ordered.               *)
NextPrice ==
    \/ \E q \in 1..MaxQty : AddToCart(1, q)
    \/ AddToCart(2, MaxQty)
    \/ \E q \in 0..MaxQty : UpdateCart(1, q)
    \/ \E u \in Users : Login(u)
    \/ Checkout(TRUE, "")
    \/ \E pr \in {10, 20}, sale \in {None, 0, 5, 20} :
            ProductUpdate(1, pr, sale)
    \/ \E k \in CartKeys : UpdatePrice(k, 1)

SpecPrice == Init /\ [][NextPrice]_vars

(* Two customers and a guest filling carts with product 1 while orders and *)
(* edits of the product move its stock.                                    *)
NextStale ==
    \/ CreateUser("bob", "bob@x", "pw2", TRUE, FALSE)
    \/ \E u \in Users : Login(u)
    \/ Logout
    \/ \E q \in 1..MaxQty : AddToCart(1, q)
    \/ \E q \in 1..MaxQty : UpdateCart(1, q)
    \/ Checkout(TRUE, "")
    \/ \E stock \in 0..MaxStock : EditProduct(1, stock, TRUE, 10, None)

SpecStale == Init /\ [][NextStale]_vars

(* Quantities set through the route and through the cart, 0 included.     *)
NextZero ==
    \/ \E p \in Products, q \in 1..MaxQty : AddToCart(p, q)
    \/ \E p \in Products, q \in 0..MaxQty : UpdateCart(p, q)
    \/ \E p \in Products, q \in 0..MaxQty : UpdateItemQuantity(p, q)
    \/ \E p \in Products : RemoveFromCart(p)
    \/ \E u \in Users : Login(u)
    \/ Logout

SpecZero == Init /\ [][NextZero]_vars

(* The sample-data scripts run, and run again, on the databases of         *)
(* InitSample, between renames of categories and new accounts.             *)
NextSample ==
    \/ \E script \in {1, 2} : RunSampleData(script)
    \/ \E c \in CategoryIds, name \in {Clothing, <<"T", "o", "y", "s">>} :
            CategoryUpdate(c, name)
    \/ \E username \in {"bob", "testuser"},
          email \in {"bob@x", "test@example.com"} :
            CreateUser(username, email, "pw2", TRUE, FALSE)

SpecSample == InitSample /\ [][NextSample]_vars

(* Starts of the application under every kind of value of FLASK_ENV,       *)
(* between requests to the cart.                                           *)
FlaskEnvValues ==
    {Unset, "", "development", "testing", "production", "default", "staging"}

NextStartUp ==
    \/ \E entry \in EntryPoints, flask_env \in FlaskEnvValues :
            StartUp(entry, flask_env)
    \/ \E p \in Products, q \in 1..MaxQty : AddToCart(p, q)
    \/ \E p \in Products : RemoveFromCart(p)

SpecStartUp == Init /\ [][NextStartUp]_vars

(* Every combination of the flags of run_tests.py and of the results of    *)
(* the two suites.                                                         *)
TestFlags ==
    [unit : BOOLEAN, selenium : BOOLEAN, all : BOOLEAN, coverage : BOOLEAN,
     verbose : BOOLEAN, headed : BOOLEAN]

NextRunTests ==
    \E flags \in TestFlags, unit_ok \in BOOLEAN, selenium_ok \in BOOLEAN :
        RunTests(flags, unit_ok, selenium_ok)

SpecRunTests == Init /\ [][NextRunTests]_vars

(* The checkout requests of two customers, their statements interleaved    *)
(* in every order.                                                         *)
NextRace ==
    \/ \E u \in {1, 2} : CheckoutBegin(u)
    \/ \E u \in {1, 2}, pay_ok \in BOOLEAN, db_ok \in BOOLEAN :
          CheckoutCreate(u, pay_ok, db_ok)
    \/ \E u \in {1, 2}, db_ok \in BOOLEAN : CheckoutClear(u, db_ok)

SpecRace == InitRace /\ [][NextRace]_vars

(* One browser: cart requests, logins with merge and checkouts, each       *)
(* request served to its end before the next one starts.                   *)
NextLedger ==
    \/ InFlight = 0 /\ \E p \in Products, q \in 1..MaxQty : AddToCart(p, q)
    \/ InFlight = 0 /\ \E p \in Products, q \in 0..MaxQty : UpdateCart(p, q)
    \/ InFlight = 0 /\ \E p \in Products : RemoveFromCart(p)
    \/ InFlight = 0 /\ \E u \in Users : Login(u)
    \/ InFlight = 0 /\ Logout
    \/ InFlight = 0 /\ current_user # None /\ CheckoutBegin(current_user)
    \/ \E u \in Users, pay_ok \in BOOLEAN, db_ok \in BOOLEAN :
          CheckoutCreate(u, pay_ok, db_ok)
    \/ \E u \in Users, db_ok \in BOOLEAN : CheckoutClear(u, db_ok)

SpecLedger == Init /\ [][NextLedger]_vars

(* Every environment of a run of the browser-test runner.                  *)
RunnerEnv ==
    [reachable : BOOLEAN, popen : {"ok", "OSError"},
     wait : {"up", "timeout", "interrupt"}, accessible : BOOLEAN,
     body : {"passed", "failed", "raised", "interrupt"},
     graceful : BOOLEAN, handlers : BOOLEAN]

NextTestRunner == \E env \in RunnerEnv : TestRunnerRun(env)

SpecTestRunner == Init /\ [][NextTestRunner]_vars

(* ------------------------------ claims --------------------------------- *)

(* The quantity of the product's first line in a cart, 0 without a line.   *)
LineQuantity(items, p) ==
    LET i == get_item_by_product(items, p)
    IN  IF i = 0 THEN 0 ELSE items[i].quantity

NoDuplicateLines(items) ==
    \A i, j \in 1..Len(items) :
        items[i].product_id = items[j].product_id => i = j

(* C3: every cart holds at most one line per product, and a successful     *)
(* add of a product that is already in the cart keeps the number of lines  *)
(* and raises that line's quantity by the added amount.                    *)
C3_OneLinePerProduct ==
    /\ [](\A k \in CartKeys : NoDuplicateLines(cart_items[k]))
    /\ [][(/\ last'.op = "add_to_cart"
           /\ last'.err = "ok"
           /\ LineQuantity(cart_items[RequestCartKey], last'.p) > 0)
          => (/\ Len(cart_items'[RequestCartKey])
                    = Len(cart_items[RequestCartKey])
              /\ LineQuantity(cart_items'[RequestCartKey], last'.p)
                    = LineQuantity(cart_items[RequestCartKey], last'.p)
                        + last'.q)]_vars

(* C3 witness: a second add of one unit raised an existing line to two.    *)
C3_Witness ==
    /\ last.op = "add_to_cart"
    /\ last.err = "ok"
    /\ last.q = 1
    /\ LineQuantity(cart_items[RequestCartKey], last.p) = 2
    /\ Len(cart_items[RequestCartKey]) = 2

(* The request asks for more than the stock, counting the line in the cart *)
AddExceedsStock ==
    /\ last'.op = "add_to_cart"
    /\ last'.q + LineQuantity(cart_items[RequestCartKey], last'.p)
          > stock_quantity[last'.p]

UpdateExceedsStock ==
    /\ last'.op = "update_cart"
    /\ last'.q > stock_quantity[last'.p]

(* C4 as stated: an add beyond the stock fails with the insufficient-stock *)
(* error, an update beyond the stock fails, and both leave the cart as it  *)
(* was.                                                                    *)
C4_AsStated ==
    [][/\ AddExceedsStock
          => (last'.err = "insufficient" /\ cart_items' = cart_items)
       /\ UpdateExceedsStock
          => (last'.err # "ok" /\ cart_items' = cart_items)]_vars

(* C4 amended: an add beyond the stock fails, with the insufficient-stock  *)
(* error when the product is active and with the product-not-found-or-     *)
(* inactive error when it is not; an update beyond the stock fails; both   *)
(* leave every cart line as it was.                                        *)
C4_OverStockRejected ==
    [][/\ AddExceedsStock
          => (/\ last'.err = (IF is_active[last'.p] THEN "insufficient"
                              ELSE "inactive")
              /\ cart_items' = cart_items)
       /\ UpdateExceedsStock
          => (/\ last'.err \in {"insufficient", "not_found"}
              /\ cart_items' = cart_items)]_vars

(* C4 witness: an add on top of a line already in the cart was rejected    *)
(* for insufficient stock although the added quantity alone was in stock.  *)
C4_Witness ==
    /\ last.op = "add_to_cart"
    /\ last.err = "insufficient"
    /\ LineQuantity(cart_items[RequestCartKey], last.p) > 0
    /\ last.q <= stock_quantity[last.p]

(* A login that finds a non-empty guest cart for the session.              *)
LoginWithGuestCart ==
    /\ last'.op = "login"
    /\ cart_session_id # None
    /\ cart_session_id \in cart_rows
    /\ ~is_empty(cart_items[GuestSession])

GuestLineFits(g, u) ==
    g.quantity + LineQuantity(cart_items[u], g.product_id)
        <= stock_quantity[g.product_id]

GuestCartGone ==
    /\ GuestSession \notin cart_rows'
    /\ cart_items'[GuestSession] = <<>>
    /\ cart_session_id' = None

(* C10 as stated: every guest line whose quantity plus the user cart's     *)
(* quantity is within the stock ends summed in the user cart, the guest    *)
(* cart row is gone and the session marker is cleared.                     *)
C10_AsStated ==
    [][LoginWithGuestCart =>
        /\ \A i \in 1..Len(cart_items[GuestSession]) :
            LET g == cart_items[GuestSession][i]
                u == current_user'
            IN  GuestLineFits(g, u) =>
                    LineQuantity(cart_items'[u], g.product_id)
                        = g.quantity + LineQuantity(cart_items[u], g.product_id)
        /\ GuestCartGone]_vars

(* C10 amended: every guest line of an active product whose quantity plus  *)
(* the user cart's quantity is within the stock ends summed in the user    *)
(* cart; every other guest line (inactive product, or beyond the stock) is *)
(* skipped and leaves the user cart's quantity of that product unchanged;  *)
(* the guest cart row is gone and the session marker is cleared.           *)
C10_GuestCartMerged ==
    [][LoginWithGuestCart =>
        /\ \A i \in 1..Len(cart_items[GuestSession]) :
            LET g == cart_items[GuestSession][i]
                u == current_user'
            IN  LineQuantity(cart_items'[u], g.product_id)
                    = IF is_active[g.product_id] /\ GuestLineFits(g, u)
                      THEN g.quantity
                             + LineQuantity(cart_items[u], g.product_id)
                      ELSE LineQuantity(cart_items[u], g.product_id)
        /\ GuestCartGone]_vars

(* C10 witness: a login merged a two-line guest cart, summing one line     *)
(* into a line the user cart already held.                                 *)
C10_Witness ==
    /\ last.op = "login"
    /\ last.err = "merged"
    /\ current_user # None
    /\ Len(cart_items[current_user]) = 2
    /\ \E p \in Products : LineQuantity(cart_items[current_user], p) = 2
    /\ GuestSession \notin cart_rows
    /\ cart_session_id = None

CheckoutPlacedOrder == last'.op = "checkout" /\ last'.err = "ok"

(* C2: a successful checkout happens on a non-empty cart whose lines are   *)
(* all purchasable; it adds exactly one order, with one line per cart line *)
(* carrying the same product, quantity and unit price; every product's     *)
(* stock falls by exactly the quantity ordered of it (by nothing for a     *)
(* product that was not ordered); and the cart ends empty.                 *)
C2_CheckoutCreatesOrder ==
    [][CheckoutPlacedOrder =>
        LET k == RequestCartKey
            items == cart_items[k]
            o == orders'[Len(orders')]
        IN  /\ Len(items) > 0
            /\ \A i \in 1..Len(items) :
                  /\ is_active[items[i].product_id]
                  /\ items[i].quantity <= stock_quantity[items[i].product_id]
            /\ Len(orders') = Len(orders) + 1
            /\ SubSeq(orders', 1, Len(orders)) = orders
            /\ o.user_id = current_user
            /\ Len(o.items) = Len(items)
            /\ \A i \in 1..Len(items) :
                  /\ o.items[i].product_id = items[i].product_id
                  /\ o.items[i].quantity = items[i].quantity
                  /\ o.items[i].price = items[i].price
            /\ \A p \in Products :
                  stock_quantity'[p]
                      = stock_quantity[p] - LineQuantity(items, p)
            /\ cart_items'[k] = <<>>]_vars

(* C2 witness: a checkout placed an order of two lines and emptied the     *)
(* cart.                                                                   *)
C2_Witness ==
    /\ last.op = "checkout"
    /\ last.err = "ok"
    /\ orders # <<>>
    /\ Len(orders[Len(orders)].items) = 2
    /\ cart_items[RequestCartKey] = <<>>

(* The cart of the request is empty or holds a line that is not            *)
(* purchasable: its product is inactive or its quantity is beyond the      *)
(* stock.                                                                  *)
CartNotOrderable ==
    LET items == cart_items[RequestCartKey]
    IN  \/ Len(items) = 0
        \/ \E i \in 1..Len(items) :
              \/ ~is_active[items[i].product_id]
              \/ items[i].quantity > stock_quantity[items[i].product_id]

(* C5: a checkout of an empty cart, or of a cart with a line whose product *)
(* is inactive or whose quantity exceeds the stock, is turned away: no     *)
(* order is created, no stock changes and the cart lines stay as they are. *)
C5_CheckoutBlocked ==
    [][(last'.op = "checkout" /\ CartNotOrderable) =>
        /\ last'.err \in {"empty", "unavailable"}
        /\ orders' = orders
        /\ stock_quantity' = stock_quantity
        /\ cart_items' = cart_items]_vars

(* C5 witness: a checkout of a non-empty cart was turned away because a    *)
(* line's product had been deactivated while its quantity was in stock.    *)
C5_Witness ==
    /\ last.op = "checkout"
    /\ last.err = "unavailable"
    /\ \E i \in 1..Len(cart_items[RequestCartKey]) :
          LET it == cart_items[RequestCartKey][i]
          IN  /\ ~is_active[it.product_id]
              /\ it.quantity <= stock_quantity[it.product_id]

(* The quantity an order holds of a product, over all its lines.           *)
RECURSIVE OrderedQuantity(_, _)
OrderedQuantity(items, p) ==
    IF items = <<>> THEN 0
    ELSE (IF items[1].product_id = p THEN items[1].quantity ELSE 0)
            + OrderedQuantity(Tail(items), p)

(* C6: for every order, subtotal_amount is the sum of quantity times unit  *)
(* price over its lines, tax_amount is 8% of subtotal_amount (exactly, or  *)
(* rounded to the cent as the Numeric(10, 2) column stores it), and        *)
(* total_amount is subtotal_amount + tax_amount + shipping_amount -        *)
(* discount_amount.                                                        *)
C6_TotalsIdentity ==
    \A i \in 1..Len(orders) :
        LET o == orders[i]
        IN  /\ o.subtotal_amount = SumTotalPrice(o.items)
            /\ o.tax_amount \in {calculate_tax(o.subtotal_amount),
                                 Quantize(calculate_tax(o.subtotal_amount))}
            /\ o.total_amount = o.subtotal_amount + o.tax_amount
                                  + o.shipping_amount - o.discount_amount

(* C7: an order enters status cancelled only from pending or confirmed,    *)
(* and enters status shipped only from confirmed with payment status paid. *)
C7_GuardedTransitions ==
    [][\A i \in 1..Len(orders) :
        /\ (orders'[i].status = "cancelled" /\ orders[i].status # "cancelled")
              => can_be_cancelled(orders[i])
        /\ (orders'[i].status = "shipped" /\ orders[i].status # "shipped")
              => can_be_shipped(orders[i])]_vars

(* C8: when an order moves to status cancelled, the stock quantity of each *)
(* product rises by the quantity the order holds of it.                    *)
C8_CancelReleasesStock ==
    [][\A i \in 1..Len(orders) :
        (orders'[i].status = "cancelled" /\ orders[i].status # "cancelled")
            => \A p \in Products :
                  stock_quantity'[p]
                      = stock_quantity[p]
                          + OrderedQuantity(orders[i].items, p)]_vars

(* C9: every update_status call appends exactly one 'Status changed from   *)
(* <old> to <new>' line to the notes and keeps the earlier lines, so that  *)
(* the status history grows by one entry per call.                         *)
C9_EveryChangeLogged ==
    [][last'.op = "update_status" =>
        LET o == orders[last'.p]
            n == orders'[last'.p]
        IN  /\ Len(n.notes) = Len(o.notes) + 1
            /\ SubSeq(n.notes, 1, Len(o.notes)) = o.notes
            /\ n.notes[Len(n.notes)].kind = "status"
            /\ n.notes[Len(n.notes)].old = o.status
            /\ n.notes[Len(n.notes)].new = n.status
            /\ Len(get_status_history(n))
                  = Len(get_status_history(o)) + 1]_vars

(* C11: a delete of an existing category that passed the admin gate is     *)
(* refused, leaving the category and the products, when at least one       *)
(* product belongs to the category, and removes the category when no       *)
(* product belongs to it.                                                  *)
C11_DeleteCategoryGuard ==
    [][(/\ last'.op = "delete_category"
        /\ last'.err \notin {"login_redirect", "forbidden", "not_found"}) =>
        LET c == last'.p
        IN  IF category_products(c) # {}
            THEN /\ last'.err = "refused"
                 /\ UNCHANGED <<categories, product_rows, category_id>>
            ELSE /\ last'.err = "ok"
                 /\ c \notin DOMAIN categories'
                 /\ UNCHANGED <<product_rows, category_id>>]_vars

(* The users an identifier and a password qualify: the username or the     *)
(* email is the identifier, the password matches the hash and the account  *)
(* is active.                                                              *)
Qualifies(i, identifier, password) ==
    /\ i \in MatchingUsers(users, identifier)
    /\ check_password(users[i], password)
    /\ users[i].is_active

(* C12: authenticate returns a user exactly when some user qualifies; the  *)
(* user returned qualifies and only its last_login is updated; when no     *)
(* user is returned the rows are unchanged.                                *)
C12_AuthenticateExactly ==
    [][last'.op = "authenticate" =>
        LET identifier == last'.p
            password == last'.q
            user == last'.user
        IN  /\ (user # None) <=>
                   \E i \in 1..Len(users) : Qualifies(i, identifier, password)
            /\ user # None =>
                   /\ Qualifies(user, identifier, password)
                   /\ users' = update_last_login(users, user)
            /\ user = None => users' = users]_vars

(* No two user rows share a username or an email.                          *)
UsersUnique ==
    \A i, j \in 1..Len(users) :
        i # j => /\ users[i].username # users[j].username
                 /\ users[i].email # users[j].email

(* C13: no two users share a username or an email; create_user with a      *)
(* username or an email in use fails with the error of a field that        *)
(* collides and adds no row; a profile edit to the email of another        *)
(* account is rejected and leaves the rows as they were.                   *)
C13_UniqueIdentity ==
    /\ []UsersUnique
    /\ [][/\ last'.op = "create_user" =>
              LET username_used ==
                      \E i \in 1..Len(users) : users[i].username = last'.p
                  email_used ==
                      \E i \in 1..Len(users) : users[i].email = last'.q
              IN  /\ (username_used \/ email_used) =>
                         /\ last'.err \in {"username", "email"}
                         /\ users' = users
                  /\ last'.err = "username" => username_used
                  /\ last'.err = "email" => email_used
                  /\ last'.err = "ok" => Len(users') = Len(users) + 1
          /\ last'.op = "edit_profile" =>
              ((\E i \in 1..Len(users) :
                    i # current_user /\ users[i].email = Lower(last'.p))
                 => /\ last'.err # "ok"
                    /\ users' = users)]_vars

C13_Witness ==
    /\ last.op = "edit_profile"
    /\ last.err = "email_in_use"
    /\ current_user # None
    /\ \E i \in 1..Len(users) :
          i # current_user /\ users[i].email = Lower(last.p)
    /\ users[current_user].email # Lower(last.p)

(* The operations behind the admin gate.                                   *)
AdminOps ==
    {"dashboard", "products", "add_product", "edit_product", "delete_product",
     "categories", "add_category", "edit_category", "delete_category"}

(* C14: an admin request of a requester who is not a logged-in             *)
(* administrator changes nothing; an anonymous requester is sent to the    *)
(* login page and a logged-in non-administrator gets the forbidden         *)
(* response.                                                               *)
C14_AdminGate ==
    [][(/\ last'.op \in AdminOps
        /\ ~(current_user # None /\ users[current_user].is_admin)) =>
        /\ UNCHANGED <<product_vars, cart_vars, session_vars, orders,
                       user_vars, catalog_vars>>
        /\ last'.err = IF current_user = None THEN "login_redirect"
                       ELSE "forbidden"]_vars

C14_Witness ==
    /\ last.op = "delete_product"
    /\ last.err = "forbidden"
    /\ current_user # None
    /\ ~users[current_user].is_admin

(* C15: a login that fails gives the one response (the invalid-credentials *)
(* message on the login page, nobody logged in) and leaves the user rows   *)
(* and everything else unchanged, whether no account matches the           *)
(* identifier, the password is wrong or the account is inactive.           *)
C15_UniformFailure ==
    [][(last'.op = "login" /\ last'.err \notin {"ok", "merged"}) =>
        /\ last'.err = "invalid"
        /\ last'.user = None
        /\ current_user' = None
        /\ UNCHANGED <<product_vars, cart_vars, session_vars, orders,
                       user_vars, catalog_vars>>]_vars

C15_Witness ==
    /\ last.op = "login"
    /\ last.err = "invalid"
    /\ \E i \in MatchingUsers(users, Lower(last.p)) :
          check_password(users[i], last.q) /\ ~users[i].is_active

(* C16: the order confirmation renders the order exactly when an order of  *)
(* that id exists and belongs to the requester; otherwise the response is  *)
(* not-found and renders nothing, for a missing order and for an order of  *)
(* another user alike.                                                     *)
C16_OwnerOnly ==
    [][last'.op = "order_confirmation" =>
        LET order_id == last'.p
        IN  IF /\ order_id \in 1..Len(orders)
               /\ orders[order_id].user_id = current_user
            THEN /\ last'.err = "ok"
                 /\ last'.shown = <<orders[order_id]>>
            ELSE /\ last'.err = "not_found"
                 /\ last'.shown = <<>>]_vars

C16_Witness ==
    /\ last.op = "order_confirmation"
    /\ last.err = "not_found"
    /\ last.p \in 1..Len(orders)
    /\ current_user # None
    /\ orders[last.p].user_id # current_user

(* C17: the effective price is the sale price when one is set and lower    *)
(* than the base price and the base price otherwise, and the product is on *)
(* sale exactly when its effective price is below its base price.          *)
C17_EffectivePrice ==
    \A p \in Products :
        /\ get_effective_price(p)
              = IF sale_price[p] # None /\ sale_price[p] < price[p]
                THEN sale_price[p] ELSE price[p]
        /\ is_on_sale(p) <=> get_effective_price(p) < price[p]

(* C18: every category's slug is generate_slug of its current name.        *)
C18_SlugFollowsName ==
    \A c \in DOMAIN categories :
        categories[c].slug = generate_slug(categories[c].name)

(* C19: a checkout whose simulated payment fails creates no order, changes *)
(* no stock and leaves every cart's lines as they were.                    *)
C19_PaymentFailureFrame ==
    [][(last'.op = "checkout" /\ last'.err = "payment_failed") =>
        /\ orders' = orders
        /\ stock_quantity' = stock_quantity
        /\ cart_items' = cart_items]_vars

C19_Witness ==
    /\ last.op = "checkout"
    /\ last.err = "payment_failed"
    /\ current_user # None
    /\ cart_items[current_user] # <<>>

(* C20: a line that appears in a cart carries the effective price its      *)
(* product had when the step began; the unit price of a line that stays in *)
(* its cart changes only in an update_price step, which sets it to the     *)
(* product's effective price; and the lines of an order placed by checkout *)
(* carry the unit prices of the cart lines.                                *)
C20_PriceSnapshot ==
    [][/\ \A k \in CartKeys : \A j \in 1..Len(cart_items'[k]) :
            LET line == cart_items'[k][j]
                i == get_item_by_product(cart_items[k], line.product_id)
            IN  IF i = 0
                THEN line.price = get_effective_price(line.product_id)
                ELSE line.price # cart_items[k][i].price =>
                        /\ last'.op = "update_price"
                        /\ line.price = get_effective_price(line.product_id)
       /\ (last'.op = "checkout" /\ last'.err = "ok") =>
            LET items == cart_items[RequestCartKey]
                o == orders'[Len(orders')]
            IN  /\ Len(o.items) = Len(items)
                /\ \A j \in 1..Len(items) :
                      /\ o.items[j].product_id = items[j].product_id
                      /\ o.items[j].price = items[j].price]_vars

C20_Witness ==
    /\ last.op = "add_to_cart"
    /\ last.err = "ok"
    /\ \E k \in CartKeys :
          LET i == get_item_by_product(cart_items[k], last.p)
          IN  /\ i # 0
              /\ cart_items[k][i].quantity > last.q
              /\ cart_items[k][i].price # get_effective_price(last.p)

(* A line of cart k holds more of its product than the product's stock.    *)
LineBeyondStock(k) ==
    \E i \in 1..Len(cart_items[k]) :
        cart_items[k][i].quantity
            > stock_quantity[cart_items[k][i].product_id]

(* C21 as stated: in every reachable state no cart line's quantity exceeds *)
(* the current stock quantity of its product.                              *)
C21_AsStated == \A k \in CartKeys : ~LineBeyondStock(k)

(* C21: every step that raises or sets the quantity of a cart line (an add *)
(* to the cart, a cart update, the merge of the guest cart at login)       *)
(* leaves that line within the stock of its product, and a checkout places *)
(* an order only from a cart whose lines are all within the stock; a line  *)
(* goes beyond the stock only when the stock falls after the line was      *)
(* written (an order of another cart, an edit of the product).             *)
C21_WithinStockWhenWritten ==
    [][/\ \A k \in CartKeys : \A j \in 1..Len(cart_items'[k]) :
            LET line == cart_items'[k][j]
                i == get_item_by_product(cart_items[k], line.product_id)
            IN  (i = 0 \/ cart_items[k][i].quantity # line.quantity)
                    => line.quantity <= stock_quantity[line.product_id]
       /\ (last'.op = "checkout" /\ last'.err = "ok")
            => ~LineBeyondStock(RequestCartKey)
       /\ (\E k \in CartKeys : LineBeyondStock(k)' /\ ~LineBeyondStock(k))
            => /\ last'.op \in {"checkout", "edit_product"}
               /\ last'.err = "ok"]_vars

C21_Witness ==
    /\ last.op = "checkout"
    /\ last.err = "unavailable"
    /\ LineBeyondStock(RequestCartKey)
    /\ \A i \in 1..Len(cart_items[RequestCartKey]) :
          is_active[cart_items[RequestCartKey][i].product_id]

(* C23: update_stock(d) adjusts the stock by the signed amount d: the      *)
(* stock becomes stock + d when that is at least 0, and the call fails     *)
(* with the negative-stock error, leaving the stock unchanged, when        *)
(* stock + d would be negative.                                            *)
C23_UpdateStockAdjusts ==
    [][last'.op = "update_stock" =>
        LET p == last'.p
            d == last'.q
        IN  IF stock_quantity[p] + d >= 0
            THEN /\ last'.err = "ok"
                 /\ stock_quantity'[p] = stock_quantity[p] + d
            ELSE /\ last'.err = "negative"
                 /\ stock_quantity'[p] = stock_quantity[p]]_vars

(* A step that set a quantity to 0, through the route or through the cart. *)
SetToZero ==
    /\ last'.op \in {"update_item_quantity", "update_cart"}
    /\ last'.q = 0

(* C22 as stated: setting a product's quantity to 0 leaves the cart as     *)
(* remove_item leaves it and succeeds as remove_item does, whether or not  *)
(* the product is in the cart.                                             *)
C22_AsStated ==
    [][SetToZero =>
        /\ cart_items'[RequestCartKey]
              = remove_item(cart_items[RequestCartKey], last'.p)
        /\ last'.err = "ok"]_vars

(* C22: setting a product's quantity to 0 leaves the cart as remove_item   *)
(* leaves it and no other cart changes; the outcome is the success of      *)
(* remove_item through the update-cart route and when the product is in    *)
(* the cart, and the not-found error when update_item_quantity is called   *)
(* for a product that is not in the cart.                                  *)
C22_ZeroRemoves ==
    [][SetToZero =>
        LET k == RequestCartKey
            absent == get_item_by_product(cart_items[k], last'.p) = 0
        IN  /\ cart_items'[k] = remove_item(cart_items[k], last'.p)
            /\ \A c \in CartKeys \ {k} : cart_items'[c] = cart_items[c]
            /\ last'.err = IF last'.op = "update_item_quantity" /\ absent
                           THEN "not_found" ELSE "ok"]_vars

C22_Witness ==
    /\ last.op = "update_item_quantity"
    /\ last.q = 0
    /\ last.err = "ok"
    /\ get_item_by_product(cart_items[RequestCartKey], last.p) = 0
    /\ cart_items[RequestCartKey] # <<>>

(* No name of the scripts' categories, no name of their products and no    *)
(* demo username is held by two rows.                                      *)
NoSampleRowTwice ==
    /\ \A c, d \in DOMAIN categories :
          (c # d /\ categories[c].name \in {Clothing, HomeAndGarden})
              => categories[c].name # categories[d].name
    /\ \A p, q \in product_rows :
          (p # q /\ product_name[p] \in {DenimJeans, LEDDeskLamp})
              => product_name[p] # product_name[q]
    /\ \A i, j \in 1..Len(users) :
          (i # j /\ users[i].username \in {"admin", "testuser"})
              => users[i].username # users[j].username

(* C24: a run of a sample-data script directly after a run of the same     *)
(* script inserts no row: the numbers of categories, products and users    *)
(* stay as the first run left them, and no category name, product name or  *)
(* demo username of the scripts occurs twice.                              *)
C24_SecondRunInsertsNothing ==
    [][(/\ last.op = "create_sample_data"
        /\ last'.op = "create_sample_data"
        /\ last'.p = last.p) =>
        /\ last'.q = 0
        /\ Cardinality(DOMAIN categories') = Cardinality(DOMAIN categories)
        /\ Cardinality(product_rows') = Cardinality(product_rows)
        /\ Len(users') = Len(users)
        /\ NoSampleRowTwice']_vars

C24_Witness ==
    /\ last.op = "create_sample_data"
    /\ last.err = "ok"
    /\ last.q = 0
    /\ \E c \in DOMAIN categories : categories[c].name = HomeAndGarden
    /\ \E p \in product_rows : product_name[p] = LEDDeskLamp
    /\ \E i \in 1..Len(users) :
          users[i].username = "admin" /\ users[i].email = "admin@example.com"

(* C25: start-up through run.py never fails because of the value of        *)
(* FLASK_ENV and ends with one profile active: the profile FLASK_ENV       *)
(* names when it names development, testing or production, and the         *)
(* development profile when it is unset or holds any other value.          *)
C25_ProfileSelected ==
    [][(last'.op = "create_app" /\ last'.q = "run.py") =>
        /\ last'.err = "ok"
        /\ last'.profile =
              CASE last'.p = "testing" -> "TestingConfig"
                [] last'.p = "production" -> "ProductionConfig"
                [] OTHER -> "DevelopmentConfig"]_vars

(* C26: the test runner exits with code 0 only if every suite it ran       *)
(* passed, and with a non-zero code if a suite it ran failed.              *)
C26_ExitCode ==
    [][last'.op = "run_tests" =>
        LET failed == \/ (last'.run_unit /\ ~last'.q.unit_ok)
                      \/ (last'.run_selenium /\ ~last'.q.selenium_ok)
        IN  /\ last'.err = 0 => ~failed
            /\ failed => last'.err # 0]_vars

(* The quantity of a product over the lines of all orders.                 *)
RECURSIVE OrderedTotal(_, _)
OrderedTotal(os, p) ==
    IF os = <<>> THEN 0
    ELSE OrderedQuantity(os[1].items, p) + OrderedTotal(Tail(os), p)

(* C27: when the checkouts of two customers whose carts both hold product  *)
(* 1 have both committed an order, whatever the interleaving of their      *)
(* reads and commits, the orders together hold no more of product 1 than   *)
(* the stock there was before the two requests, and the stock left is that *)
(* stock less the quantity ordered.                                        *)
C27_NoOversell ==
    (/\ Len(orders) = 2
     /\ orders[1].user_id # orders[2].user_id)
        => /\ OrderedTotal(orders, 1) <= MaxStock
           /\ stock_quantity[1] = MaxStock - OrderedTotal(orders, 1)

(* A step that ends the checkout request of user u.                        *)
RequestEnds(u) ==
    /\ last'.op = "checkout"
    /\ last'.p = u
    /\ last'.err # "validated"
    /\ last'.err # "created"

(* C28: a checkout request ends either with its order committed and the    *)
(* cart of the user empty, or with no order of it, the orders, the stock   *)
(* of every product and the lines of the cart as they were; also when the  *)
(* database fails in create_from_cart or in clear_cart.                    *)
C28_AllOrNothing ==
    [][\A u \in Users :
        RequestEnds(u) =>
            IF db_sessions[u].pc = "created"
            THEN cart_items'[u] = <<>>
            ELSE /\ orders' = orders
                 /\ stock_quantity' = stock_quantity
                 /\ cart_items'[u] = cart_items[u]]_vars

(* C29: with cart requests, logins with merge and checkouts served one     *)
(* after the other (placed, payment failed, or failed with an error), for  *)
(* every product the stock it was created with is its current stock plus   *)
(* the quantity of it over all order lines.                                *)
C29_StockConserved ==
    \A p \in Products :
        MaxStock = stock_quantity[p] + OrderedTotal(orders, p)

(* C29 witness: two orders were placed, between them all of product 1,     *)
(* and a later checkout step failed with an error.                         *)
C29_Witness ==
    /\ Len(orders) = 2
    /\ OrderedTotal(orders, 1) = MaxStock
    /\ stock_quantity[1] = 0
    /\ last.op = "checkout"
    /\ last.err = "error"

(* C30: when run_tests (and with it start_flask_app) has finished, by      *)
(* returning or by raising, the application process the runner launched is *)
(* not running any more, and the runner launched none when an application  *)
(* was reachable before.                                                   *)
C30_StopsWhatItStarted ==
    [][last'.op = "test_runner" =>
        /\ last'.flask_process # "running"
        /\ last'.launched => last'.flask_process = "stopped"
        /\ last'.p.reachable => last'.flask_process = "none"]_vars

====
